---------------------------- MODULE Spec2Model ----------------------------
(***************************************************************************)
(* A model of the EC2 patching workflow: the SSM command poller, the       *)
(* command dispatcher with its retry wrapper, the post-patch verification  *)
(* handler, the approval links, authorizer and callback, and the wave      *)
(* scheduler that drives them.  Each component has its own specification   *)
(* (SpecPoll, SpecDispatch, SpecApproval, SpecExec); the variables of the  *)
(* other components stay at their initial value in it.                     *)
(***************************************************************************)
EXTENDS Integers, Sequences, FiniteSets, TLC

VARIABLES
    invocations,    \* SSM side: the Status of each invocation of the polled command
    fresh,          \* TRUE while the invocations are as the last poll read them
    lastPoll,       \* the result the poll handler returned last
    pollCount,      \* polls made by the caller for this command
    targetOutcome,  \* the caller's verdict on the target: none, done, timeout, fault
    dEvent,         \* dispatch: the event given to the dispatch handler
    dPc,            \* dispatch: where the handler is: start, assume, send, returned, raised
    dAttempt,       \* dispatch: the retry wrapper's attempt counter
    dDelay,         \* dispatch: the retry wrapper's next delay, in seconds
    dSleeps,        \* dispatch: the delays slept so far, in order
    dCalls,         \* dispatch: calls made so far of _assume's and _send_command's function
    stsRequest,     \* dispatch: the parameters of the last assume_role request
    remoteCommands, \* SSM side: commands created for this dispatch call
    dResult,        \* dispatch: what the handler returned or raised
    variant,        \* approval: which ApprovalCallback.py is deployed: lambda or hub
    cont,           \* engine side: the continuation suspended at the approval gate
    audit,          \* approval: the audit records of decisions written so far
    lastResp,       \* approval: the answer to the last resolution request
    clock,          \* approval: the time, in seconds
    secretStore,    \* approval: the signing secret the secret store holds now
    arnSet,         \* approval: whether SIGNING_SECRET_ARN is configured
    authCache,      \* approval: the authorizer's _cached_secret_value ("" is None)
    link,           \* approval: the link pair sent to the approver
    reqCount,       \* approval: resolution requests made so far
    lastReq,        \* approval: the last resolution request
    abortOnIssues,  \* scheduler: the execution's abortOnIssues input
    policy,         \* scheduler: on an abort condition, gate (ask a human) or halt
    xStatus,        \* scheduler: Running, AwaitingApproval, Completed, Aborted, Failed
    xWave,          \* scheduler: the wave being run
    xTargets,       \* scheduler: each target waiting, running or finished
    xReports,       \* scheduler: the results of the current wave's finished targets
    xDecided,       \* scheduler: per wave, the continue-or-abort decision made
    vStates,        \* verification: the patch states given to analyze_patch_states
    vAnalysis,      \* verification: what analyze_patch_states returned
    vAccounts,      \* verification: the accounts of the event, in its order
    vEnv,           \* verification: per (account, region), what the target holds or fails with
    vResults,       \* verification: the handler's results list
    vResponse,      \* verification: what PostEC2Verify's handler returned
    vInventory,     \* verification: what PreEC2Inventory's handler returned
    vEvent,         \* verification: the event as the handlers receive it
    vCalls,         \* verification: remote calls made by each handler on the event
    rFn,            \* retry: the wrapped function being called
    rN,             \* retry: the attempts its wrapper is configured with
    rAttempt,       \* retry: the wrapper's attempt counter
    rSleeps,        \* retry: the delays the wrapper has slept, in order
    rCalls,         \* retry: calls of the wrapped function made so far
    rLast,          \* retry: what the latest remote call came to
    rResult,        \* retry: running, returned, or raised with the exception
    secretCalls,    \* authorizer process: get_secret_value calls made, secrets obtained
    tables          \* storage: the items of the state table and of the audit table

pollVars == <<invocations, fresh, lastPoll, pollCount, targetOutcome>>

dispVars ==
    <<dEvent, dPc, dAttempt, dDelay, dSleeps, dCalls, stsRequest, remoteCommands, dResult>>

gateVars == <<variant, cont, audit, lastResp, lastReq>>

linkVars == <<clock, secretStore, arnSet, authCache, link, reqCount>>

execVars == <<abortOnIssues, policy, xStatus, xWave, xTargets, xReports, xDecided>>

verifyVars ==
    <<vStates, vAnalysis, vAccounts, vEnv, vResults, vResponse, vInventory, vEvent, vCalls>>

retryVars == <<rFn, rN, rAttempt, rSleeps, rCalls, rLast, rResult>>

authVars == <<secretCalls>>

recordVars == <<tables>>

vars == <<pollVars, dispVars, gateVars, linkVars, execVars, verifyVars, retryVars, authVars, recordVars>>

\* what each component leaves alone
notPoll == <<dispVars, gateVars, linkVars, execVars, verifyVars, retryVars, authVars, recordVars>>

notDispatch == <<pollVars, gateVars, linkVars, execVars, verifyVars, retryVars, authVars, recordVars>>

notApproval == <<pollVars, dispVars, execVars, verifyVars, retryVars, authVars, recordVars>>

notExec == <<pollVars, dispVars, linkVars, verifyVars, retryVars, authVars, recordVars>>

notVerify == <<pollVars, dispVars, gateVars, linkVars, execVars, retryVars, authVars, recordVars>>

-----------------------------------------------------------------------------
(* Bounds of the model *)

\* longest invocation list of one command
MaxInv == 2
\* polls the caller makes before it gives the target up as timed out
PollBudget == 2
\* steps of the clock in the approval model
MaxTicks == 2
\* resolution requests made against one approval gate
MaxRequests == 2
\* waves of an execution, and targets of a wave
NumWaves == 2
TargetsPerWave == 2

-----------------------------------------------------------------------------
(* src/terraform/hub/lambda/PollSsmCommand.py *)

\* The seven invocation statuses of the data model.
InvocationStatuses ==
    {"Pending", "Delayed", "InProgress", "Success", "Failed", "Cancelled", "TimedOut"}

\* The statuses SSM reports for an invocation: the seven, and the transient
\* Cancelling.
ObservedStatuses == InvocationStatuses \cup {"Cancelling"}

completed_statuses_NoCancelled == {"Success", "Failed", "TimedOut"}

\* counting the transient Cancelling as completed
completed_statuses_WithCancelling ==
    {"Success", "Cancelled", "Failed", "TimedOut", "Cancelling"}

completed_statuses == {"Success", "Cancelled", "Failed", "TimedOut"}

running_statuses == {"InProgress", "Pending", "Delayed"}

\* counting Cancelled as a success
failed_statuses_NoCancelled == {"Failed", "TimedOut"}

failed_statuses == {"Failed", "TimedOut", "Cancelled"}

\* number of invocations of invs whose status is in S
CountIn(invs, S) == Cardinality({i \in 1..Len(invs) : invs[i] \in S})

\* The overall status tag.  failure_rate = failed / total * 100 is compared
\* with 50, 20 and 0; on integers that is 100 * failed against 50 * total...
OverallStatus(all_done, failed, total, in_progress) ==
    IF all_done
    THEN IF 100 * failed > 50 * total THEN "MAJORITY_FAILED"
         ELSE IF 100 * failed > 20 * total THEN "HIGH_FAILURE_RATE"
         ELSE IF 100 * failed > 0 THEN "COMPLETED_WITH_FAILURES"
         ELSE "ALL_SUCCESS"
    ELSE IF in_progress > 0 THEN "IN_PROGRESS" ELSE "UNKNOWN"

analyze_command_status(invs) ==
    IF Len(invs) = 0
    THEN [all_done |-> FALSE,
          status |-> "NO_INVOCATIONS",
          total_instances |-> 0,
          completed_instances |-> 0,
          should_continue_polling |-> TRUE]
    ELSE LET total_instances == Len(invs)
             completed_instances == CountIn(invs, completed_statuses)
             in_progress_instances == CountIn(invs, running_statuses)
             successful_instances == CountIn(invs, {"Success"})
             failed_instances == CountIn(invs, failed_statuses)
             all_done == (completed_instances = total_instances) /\ total_instances > 0
         IN  [all_done |-> all_done,
              status |-> OverallStatus(all_done, failed_instances, total_instances,
                                       in_progress_instances),
              total_instances |-> total_instances,
              completed_instances |-> completed_instances,
              in_progress_instances |-> in_progress_instances,
              successful_instances |-> successful_instances,
              failed_instances |-> failed_instances,
              should_continue_polling |-> ~all_done]

\* What can go wrong in one poll: nothing; an SSMPollingError (invalid event,
\* role assumption or list-invocations ClientError); any other exception.
PollFaults == {"none", "SSMPollingError", "UnexpectedError"}

\* The result of a handler that let the exception escape.
Raised == [raised |-> TRUE]

PollSsmCommand_handler_Uncaught(invs, fault) ==
    IF fault = "none" /\ Len(invs) > 0
    THEN [statusCode |-> 200, success |-> TRUE] @@ analyze_command_status(invs)
    ELSE Raised

\* error results that tell the caller to poll again
PollSsmCommand_handler_PollAgainOnError(invs, fault) ==
    CASE fault = "none" /\ Len(invs) > 0 ->
            [statusCode |-> 200, success |-> TRUE] @@ analyze_command_status(invs)
      [] fault = "SSMPollingError" ->
            [statusCode |-> 400, success |-> FALSE, error_type |-> "SSMPollingError",
             all_done |-> FALSE, should_continue_polling |-> TRUE]
      [] OTHER ->
            [statusCode |-> 500, success |-> FALSE, error_type |-> "UnexpectedError",
             all_done |-> FALSE, should_continue_polling |-> TRUE]

\* The analysis of an empty list has no failure_rate: the handler's reading of
\* it for the high-failure-rate warning raises KeyError, caught as any other
\* exception.
PollSsmCommand_handler(invs, fault) ==
    CASE fault = "none" /\ Len(invs) > 0 ->
            [statusCode |-> 200, success |-> TRUE] @@ analyze_command_status(invs)
      [] fault = "SSMPollingError" ->
            [statusCode |-> 400, success |-> FALSE, error_type |-> "SSMPollingError",
             all_done |-> FALSE, should_continue_polling |-> FALSE]
      [] OTHER ->
            [statusCode |-> 500, success |-> FALSE, error_type |-> "UnexpectedError",
             all_done |-> FALSE, should_continue_polling |-> FALSE]

\* get_command_invocations: the invocations SSM lists for the command, and
\* SSM's invocations after the call, which only reads them
get_command_invocations_Draining(ssm) == [listed |-> ssm, ssm |-> <<>>]

get_command_invocations(ssm) == [listed |-> ssm, ssm |-> ssm]

-----------------------------------------------------------------------------
(* src/lambda/SendSsmCommand.py *)

\* @_retry(max_attempts=3, base=1.0, factor=2.0)
max_attempts == 3
base == 1
factor == 2

\* The error codes _retry retries.
RetryableCodes ==
    {"ThrottlingException", "Throttling", "RequestLimitExceeded",
     "TooManyRequestsException", "InternalError", "ServiceUnavailable"}

\* Error codes a remote call is seen to fail with here: the retryable ones the
\* model draws, and two that are not retryable.
DrawnCodes == {"ThrottlingException", "ServiceUnavailable", "AccessDenied", "InvalidDocument"}

\* A server-side fault can strike after the request was carried out, so that
\* the response is lost; throttling and a refusal strike before.
LosesResponse(code) == code \in {"InternalError", "ServiceUnavailable"}

\* What one call of a wrapped function can come to: it returns, or it raises
\* a ClientError with a code; effect says whether the remote side carried the
\* request out.
CallOutcomes ==
    {[kind |-> "ok", code |-> "", effect |-> TRUE]}
    \cup {[kind |-> "ClientError", code |-> c, effect |-> FALSE] : c \in DrawnCodes}
    \cup {[kind |-> "ClientError", code |-> c, effect |-> TRUE] :
             c \in {d \in DrawnCodes : LosesResponse(d)}}

\* _retry's wrapper, one turn of its loop: return the value, sleep and go
\* round again, or re-raise.
retry_decision(o, attempt) ==
    IF o.kind = "ok" THEN "return"
    ELSE IF o.code \in RetryableCodes /\ attempt < max_attempts - 1 THEN "retry"
    ELSE "raise"

\* The event fields the handler requires: each is absent, empty or given.
FieldValues == {"absent", "empty", "given"}

\* a check that lets an empty field through
Falsy_AbsentOnly(f) == f = "absent"

\* not role_arn, not region: an absent (None) or empty field is falsy
Falsy(f) == f \in {"absent", "empty"}

-----------------------------------------------------------------------------
(* Text.  A string is a sequence of symbols; a symbol is one character, a   *)
(* percent-encoded character, or a word that holds no reserved character.   *)

\* Characters that urllib.parse.quote(s, safe='') percent-encodes.
Reserved == {"+", "/", "=", "&", "#", ":", " "}

PercentEncoded(c) ==
    CASE c = "+" -> "%2B"
      [] c = "/" -> "%2F"
      [] c = "=" -> "%3D"
      [] c = "&" -> "%26"
      [] c = "#" -> "%23"
      [] c = ":" -> "%3A"
      [] c = " " -> "%20"

\* urllib.parse.quote(s, safe='')
quote(s) == [i \in 1..Len(s) |-> IF s[i] \in Reserved THEN PercentEncoded(s[i]) ELSE s[i]]

\* urllib.parse.unquote(s); the query-string decoding of the gateway is the same
unquote(s) ==
    [i \in 1..Len(s) |->
        IF \E c \in Reserved : PercentEncoded(c) = s[i]
        THEN CHOOSE c \in Reserved : PercentEncoded(c) = s[i]
        ELSE s[i]]

\* the part of s before the first symbol that is in stops
RECURSIVE Before(_, _)
Before(s, stops) ==
    IF s = <<>> \/ Head(s) \in stops THEN <<>>
    ELSE <<Head(s)>> \o Before(Tail(s), stops)

\* str.strip(): leading and trailing white space removed
RECURSIVE lstrip(_)
lstrip(s) == IF s # <<>> /\ Head(s) = " " THEN lstrip(Tail(s)) ELSE s

RECURSIVE rstrip(_)
rstrip(s) ==
    IF s # <<>> /\ s[Len(s)] = " " THEN rstrip(SubSeq(s, 1, Len(s) - 1)) ELSE s

strip(s) == rstrip(lstrip(s))

Abs(n) == IF n < 0 THEN 0 - n ELSE n

-----------------------------------------------------------------------------
(* src/lambda/SendApprovalRequest.py: the approval links *)

\* The symbols of an action parameter: one word, or words with a colon
\* between them.
Spelled(action) ==
    IF action = "approve:arn" THEN <<"approve", ":", "arn">> ELSE <<action>>

\* f"{token}:{timestamp}:{action}:{execution_id}"; the timestamp is one word.
build_canonical_string(token, timestamp_text, action, execution_id) ==
    token \o <<":", timestamp_text, ":">> \o Spelled(action) \o <<":">> \o execution_id

\* hmac.new(secret, canonical, sha256).hexdigest(): the digest is taken to be
\* free of collisions, so it stands for the pair it was computed from.
sign(canonical, secret) == <<"hmac", secret>> \o canonical

\* A timestamp parameter: absent, a decimal integer, or other text.
NoTimestamp == [kind |-> "absent", n |-> 0]
IntTimestamp(n) == [kind |-> "int", n |-> n]

\* f"{timestamp}" of an integer, and the text of a timestamp parameter
TimestampText(t) == IF t.kind = "int" THEN ToString(t.n) ELSE "NaN"

\* links that carry a sig whether or not a secret was retrieved
create_approval_links_AlwaysSigned(task_token, execution_id, now, secret) ==
    LET build(action) ==
            [action |-> action, token |-> quote(task_token),
             executionId |-> execution_id, timestamp |-> now,
             signed |-> TRUE,
             sig |-> sign(build_canonical_string(task_token, ToString(now),
                                                 action, execution_id), secret)]
    IN  [approve_url |-> build("approve"), reject_url |-> build("reject")]

\* create_approval_links: the two links, each with its query parameters as
\* they are written into the URL: the token quoted, the execution id as it
\* is, and the sig only when a secret was retrieved (secret = "" is None).
create_approval_links(task_token, execution_id, now, secret) ==
    LET encoded_token == quote(task_token)
        timestamp == now
        build(action) ==
            IF secret # ""
            THEN [action |-> action, token |-> encoded_token,
                  executionId |-> execution_id, timestamp |-> timestamp,
                  signed |-> TRUE,
                  sig |-> sign(build_canonical_string(task_token, ToString(timestamp),
                                                      action, execution_id), secret)]
            ELSE [action |-> action, token |-> encoded_token,
                  executionId |-> execution_id, timestamp |-> timestamp,
                  signed |-> FALSE, sig |-> <<>>]
    IN  [approve_url |-> build("approve"), reject_url |-> build("reject")]

\* SendApprovalRequest._get_signing_secret: None ("") when the ARN is unset or
\* the fetch fails, else the stored secret.
SendApprovalRequest_get_signing_secret(arn_set, store, fetchOk) ==
    IF ~arn_set THEN "" ELSE IF ~fetchOk THEN "" ELSE store

\* The query parameters the gateway hands to the authorizer and the callback
\* when a link is followed as it was written: the query string
\* action=..&token=..&executionId=..&timestamp=..&sig=.. is cut at a '#'
\* (the fragment is not sent), split at each '&', and each value decoded.
GatewayQuery(url) ==
    LET fragment == "#" \in {url.executionId[i] : i \in 1..Len(url.executionId)}
    IN  [action |-> url.action,
         token |-> unquote(url.token),
         hasExecutionId |-> TRUE,
         executionId |-> unquote(Before(url.executionId, {"&", "#"})),
         timestamp |-> IF fragment THEN NoTimestamp ELSE IntTimestamp(url.timestamp),
         sig |-> IF fragment \/ ~url.signed THEN <<>> ELSE url.sig]

-----------------------------------------------------------------------------
(* src/lambda/ApprovalAuthorizer.py *)

\* APPROVAL_EXPIRY_MINUTES, default "60"
max_age_minutes == 60

\* a process that keeps no secret and fetches it on every request
ApprovalAuthorizer_get_signing_secret_NoCache(cached, arn_set, store, fetchOk) ==
    IF ~arn_set THEN [raised |-> TRUE, value |-> "", cached |-> cached, fetched |-> FALSE]
    ELSE IF ~fetchOk THEN [raised |-> TRUE, value |-> "", cached |-> cached, fetched |-> TRUE]
    ELSE [raised |-> FALSE, value |-> store, cached |-> store, fetched |-> TRUE]

\* _get_signing_secret: the cached value when there is one (cached = "" is
\* None); else it raises when the ARN is unset or the fetch fails, and caches
\* and returns the stored secret otherwise.  fetched: get_secret_value was called.
ApprovalAuthorizer_get_signing_secret(cached, arn_set, store, fetchOk) ==
    IF cached # "" THEN [raised |-> FALSE, value |-> cached, cached |-> cached, fetched |-> FALSE]
    ELSE IF ~arn_set THEN [raised |-> TRUE, value |-> "", cached |-> cached, fetched |-> FALSE]
    ELSE IF ~fetchOk THEN [raised |-> TRUE, value |-> "", cached |-> cached, fetched |-> TRUE]
    ELSE [raised |-> FALSE, value |-> store, cached |-> store, fetched |-> TRUE]

\* hmac.compare_digest
const_eq_Prefix(a, b) == Len(a) >= 2 /\ Len(b) >= 2 /\ SubSeq(a, 1, 2) = SubSeq(b, 1, 2)

const_eq(a, b) == a = b

\* str.strip() on the texts an action parameter takes here
strip_text(a) ==
    CASE a = " " -> ""
      [] a = " approve" -> "approve"
      [] a = " reject" -> "reject"
      [] OTHER -> a

\* an authorizer that lets every request through
ApprovalAuthorizer_handler_Open(query, now, cached, arn_set, store, fetchOk) ==
    [isAuthorized |-> TRUE, cached |-> cached, fetched |-> FALSE]

\* an authorizer that lets the request through when the secret cannot be had
ApprovalAuthorizer_handler_OpenOnError(query, now, cached, arn_set, store, fetchOk) ==
    LET sig == strip(query.sig)
        token == strip(query.token)
        ts == query.timestamp
        action == strip_text(query.action)
        execution_id == strip(query.executionId)
        deny == [isAuthorized |-> FALSE, cached |-> cached, fetched |-> FALSE]
    IN  IF sig = <<>> \/ token = <<>> \/ ts.kind \in {"absent", "blank"} \/ action = ""
        THEN deny
        ELSE IF ts.kind # "int" THEN deny
        ELSE IF Abs(now - ts.n) > max_age_minutes * 60 THEN deny
        ELSE LET secret == ApprovalAuthorizer_get_signing_secret(cached, arn_set, store, fetchOk)
                 canonical == build_canonical_string(token, TimestampText(ts), action,
                                                     execution_id)
             IN  IF secret.raised
                 THEN [isAuthorized |-> TRUE, cached |-> secret.cached,
                       fetched |-> secret.fetched]
                 ELSE [isAuthorized |-> const_eq(sign(canonical, secret.value), sig),
                       cached |-> secret.cached, fetched |-> secret.fetched]

\* The authorizer's handler on the query parameters, at time now.
\* A timestamp of kind "blank" is white space only: empty once stripped.
ApprovalAuthorizer_handler(query, now, cached, arn_set, store, fetchOk) ==
    LET sig == strip(query.sig)
        token == strip(query.token)
        ts == query.timestamp
        action == strip_text(query.action)
        execution_id == strip(query.executionId)
        deny == [isAuthorized |-> FALSE, cached |-> cached, fetched |-> FALSE]
    IN  IF sig = <<>> \/ token = <<>> \/ ts.kind \in {"absent", "blank"} \/ action = ""
        THEN deny
        ELSE IF ts.kind # "int" THEN deny
        ELSE IF Abs(now - ts.n) > max_age_minutes * 60 THEN deny
        ELSE LET secret == ApprovalAuthorizer_get_signing_secret(cached, arn_set, store, fetchOk)
                 canonical == build_canonical_string(token, TimestampText(ts), action,
                                                     execution_id)
             IN  IF secret.raised
                 THEN [isAuthorized |-> FALSE, cached |-> secret.cached,
                       fetched |-> secret.fetched]
                 ELSE [isAuthorized |-> const_eq(sign(canonical, secret.value), sig),
                       cached |-> secret.cached, fetched |-> secret.fetched]

-----------------------------------------------------------------------------
(* The workflow engine's suspended continuation, and the callback that      *)
(* resolves it: src/lambda/ApprovalCallback.py and its hub variant          *)
(* src/terraform/hub/lambda/ApprovalCallback.py.                            *)

\* The continuation token the engine issued, and a token it never issued.
IssuedToken == <<"T", "+">>
UnknownToken == <<"U", "/">>

NoContinuation == [status |-> "none", token |-> <<>>, error |-> ""]
Suspended(token) == [status |-> "pending", token |-> token, error |-> ""]

\* What one attempt of a task call can meet on the way to the engine and back:
\* nothing, a throttled request (the engine never sees the call), or a lost
\* response (the engine acts and the caller gets a connection error).
TaskFaults == {"none", "throttled", "lost"}

\* The engine on SendTaskSuccess (outcome "succeeded") or SendTaskFailure
\* (outcome "failed", with its error name): an open continuation named by its
\* token is resolved; a token already resolved is refused with TaskTimedOut,
\* a token never issued with TaskDoesNotExist.
EngineSendTask(outcome, error, token, task) ==
    IF task.status = "pending" /\ token = task.token
    THEN [code |-> "", cont |-> [status |-> outcome, token |-> token, error |-> error]]
    ELSE IF task.status \in {"succeeded", "failed"} /\ token = task.token
    THEN [code |-> "TaskTimedOut", cont |-> task]
    ELSE [code |-> "TaskDoesNotExist", cont |-> task]

\* One boto3 call sf_client.send_task_success / send_task_failure under a fault:
\* exc is "" when the call returns, else the exception class; code its error code.
SfClientCall(outcome, error, token, task, fault) ==
    LET r == EngineSendTask(outcome, error, token, task)
    IN  CASE fault = "throttled" ->
                [exc |-> "ClientError", code |-> "ThrottlingException", cont |-> task]
          [] fault = "lost" ->
                [exc |-> "BotoCoreError", code |-> "Unknown", cont |-> r.cont]
          [] OTHER ->
                IF r.code = "" THEN [exc |-> "", code |-> "", cont |-> r.cont]
                ELSE [exc |-> "ClientError", code |-> r.code, cont |-> task]

\* The body of send_task_success / send_task_failure.  The lambda flavour lets
\* the client's exception out as it is; the hub flavour catches ClientError and
\* raises ApprovalCallbackError in its place.
send_task_body(flavour, outcome, error, token, task, fault) ==
    LET c == SfClientCall(outcome, error, token, task, fault)
    IN  IF flavour = "hub" /\ c.exc = "ClientError"
        THEN [exc |-> "ApprovalCallbackError", code |-> c.code, cont |-> c.cont]
        ELSE c

\* no task call made: no signal sent to the continuation
NoSignal == [outcome |-> "none", error |-> ""]

\* retry_with_backoff(max_retries=3, base_delay=1.0)
max_retries == 3

NonRetryableTaskCodes == {"ValidationException", "InvalidParameterValue", "TaskDoesNotExist"}

\* The decorated function from attempt number attempt on (0-based), the faults
\* of the attempts given in order.  ClientError and BotoCoreError are caught:
\* raised again on the last attempt or for a non-retryable code, retried
\* otherwise; any other exception leaves the wrapper at once.
RECURSIVE retry_send_task(_, _, _, _, _, _, _)
retry_send_task(flavour, outcome, error, token, task, faults, attempt) ==
    LET r == send_task_body(flavour, outcome, error, token, task, faults[attempt + 1])
        calls == attempt + 1
    IN  IF r.exc = "" THEN [exc |-> "", success |-> TRUE, cont |-> r.cont, calls |-> calls,
              signal |-> [outcome |-> outcome, error |-> error]]
        ELSE IF r.exc \notin {"ClientError", "BotoCoreError"}
        THEN [exc |-> r.exc, success |-> FALSE, cont |-> r.cont, calls |-> calls,
              signal |-> [outcome |-> outcome, error |-> error]]
        ELSE IF attempt = max_retries - 1 \/ r.code \in NonRetryableTaskCodes
        THEN [exc |-> r.exc, success |-> FALSE, cont |-> r.cont, calls |-> calls,
              signal |-> [outcome |-> outcome, error |-> error]]
        ELSE retry_send_task(flavour, outcome, error, token, r.cont, faults, attempt + 1)

send_task_success(flavour, token, task, faults) ==
    retry_send_task(flavour, "succeeded", "", token, task, faults, 0)

\* a rejection that sends the success outcome
send_task_failure_AsSuccess(flavour, token, task, faults) ==
    retry_send_task(flavour, "succeeded", "", token, task, faults, 0)

send_task_failure(flavour, token, task, faults) ==
    retry_send_task(flavour, "failed", "ManualRejection", token, task, faults, 0)

\* APPROVAL_EXPIRY_MINUTES as validate_request reads it, default '60'
expiry_minutes == 60

\* a validation that takes any action that is present
validate_request_AnyAction(query, now) ==
    IF query.action = "" \/ query.token = <<>>
    THEN [raised |-> TRUE, action |-> "", task_token |-> <<>>, execution_id |-> <<>>]
    ELSE [raised |-> FALSE, action |-> query.action, task_token |-> unquote(query.token),
          execution_id |-> query.executionId]

\* validate_request on the query parameters at time now: raised, or the
\* request data.  The timestamp is looked at only when it is present, only
\* its age is bounded, and a timestamp that is no integer is let through.
validate_request(query, now) ==
    LET refuse == [raised |-> TRUE, action |-> "", task_token |-> <<>>, execution_id |-> <<>>]
    IN  IF query.action \notin {"approve", "reject"} THEN refuse
        ELSE IF query.token = <<>> THEN refuse
        ELSE IF /\ query.timestamp.kind = "int"
                /\ now - query.timestamp.n > expiry_minutes * 60
        THEN refuse
        ELSE [raised |-> FALSE,
              action |-> query.action,
              task_token |-> unquote(query.token),
              execution_id |-> IF query.hasExecutionId THEN query.executionId
                               ELSE <<"unknown">>]

\* log_approval_decision: one more audit record of the decision
log_approval_decision(records, action, execution_id, task_token) ==
    records \cup {[action |-> action, execution_id |-> execution_id, token |-> task_token]}

\* The handler with the two signals exchanged.
ApprovalCallback_handler_Swapped(flavour, query, now, task, records, faults) ==
    LET request_data == validate_request(query, now)
    IN  IF request_data.raised
        THEN [statusCode |-> 400, cont |-> task, audit |-> records, calls |-> 0,
              signal |-> NoSignal]
        ELSE LET logged == log_approval_decision(records, request_data.action,
                                request_data.execution_id, request_data.task_token)
                 result == IF request_data.action = "approve"
                           THEN send_task_failure(flavour, request_data.task_token, task, faults)
                           ELSE send_task_success(flavour, request_data.task_token, task, faults)
             IN  [statusCode |-> IF result.success THEN 200
                                 ELSE IF result.exc = "ApprovalCallbackError" THEN 400
                                 ELSE 500,
                  cont |-> result.cont, audit |-> logged, calls |-> result.calls,
                  signal |-> result.signal]

\* The handler that answers 200 whatever the engine said.
ApprovalCallback_handler_Swallow(flavour, query, now, task, records, faults) ==
    LET request_data == validate_request(query, now)
    IN  IF request_data.raised
        THEN [statusCode |-> 400, cont |-> task, audit |-> records, calls |-> 0,
              signal |-> NoSignal]
        ELSE LET logged == log_approval_decision(records, request_data.action,
                                request_data.execution_id, request_data.task_token)
                 result == IF request_data.action = "approve"
                           THEN send_task_success(flavour, request_data.task_token, task, faults)
                           ELSE send_task_failure(flavour, request_data.task_token, task, faults)
             IN  [statusCode |-> 200,
                  cont |-> result.cont, audit |-> logged, calls |-> result.calls,
                  signal |-> result.signal]

\* The handler writing the audit record once the signal has gone through.
ApprovalCallback_handler_LogAfterSignal(flavour, query, now, task, records, faults) ==
    LET request_data == validate_request(query, now)
    IN  IF request_data.raised
        THEN [statusCode |-> 400, cont |-> task, audit |-> records, calls |-> 0,
              signal |-> NoSignal]
        ELSE LET result == IF request_data.action = "approve"
                           THEN send_task_success(flavour, request_data.task_token, task, faults)
                           ELSE send_task_failure(flavour, request_data.task_token, task, faults)
                 logged == IF result.success
                           THEN log_approval_decision(records, request_data.action,
                                    request_data.execution_id, request_data.task_token)
                           ELSE records
             IN  [statusCode |-> IF result.success THEN 200
                                 ELSE IF result.exc = "ApprovalCallbackError" THEN 400
                                 ELSE 500,
                  cont |-> result.cont, audit |-> logged, calls |-> result.calls,
                  signal |-> result.signal]

\* handler: validate, write the audit record, signal the continuation, answer
\* 200 on success, 400 on ApprovalCallbackError and 500 on any other exception.
ApprovalCallback_handler(flavour, query, now, task, records, faults) ==
    LET request_data == validate_request(query, now)
    IN  IF request_data.raised
        THEN [statusCode |-> 400, cont |-> task, audit |-> records, calls |-> 0,
              signal |-> NoSignal]
        ELSE LET logged == log_approval_decision(records, request_data.action,
                                request_data.execution_id, request_data.task_token)
                 result == IF request_data.action = "approve"
                           THEN send_task_success(flavour, request_data.task_token, task, faults)
                           ELSE send_task_failure(flavour, request_data.task_token, task, faults)
             IN  [statusCode |-> IF result.success THEN 200
                                 ELSE IF result.exc = "ApprovalCallbackError" THEN 400
                                 ELSE 500,
                  cont |-> result.cont, audit |-> logged, calls |-> result.calls,
                  signal |-> result.signal]

-----------------------------------------------------------------------------
(* src/lambda/PostEC2Verify.py: the handler's aggregate over the targets *)

\* What process_account_region returns for one target: a failure, or the
\* analysis of its patch states (instances in all, instances with issues).
\* A patch state of describe_instance_patch_states, as far as it is read.
PatchState(instance_id, missing, failed) ==
    [InstanceId |-> instance_id, MissingCount |-> missing, FailedCount |-> failed]

\* counting an instance as problematic only for failed patches
has_issues_FailedOnly(state) == state.FailedCount > 0

has_issues(state) == state.MissingCount > 0 \/ state.FailedCount > 0

severity(state) == IF state.FailedCount > 0 THEN "high" ELSE "medium"

issue_detail(state) ==
    [instance_id |-> state.InstanceId,
     missing_count |-> state.MissingCount,
     failed_count |-> state.FailedCount,
     severity |-> severity(state)]

RECURSIVE issues_found(_)
issues_found(patch_states) ==
    IF patch_states = <<>> THEN <<>>
    ELSE (IF has_issues(Head(patch_states)) THEN <<issue_detail(Head(patch_states))>>
          ELSE <<>>)
         \o issues_found(Tail(patch_states))

\* round(healthy / total * 100, 2), in hundredths of a percent
Rate(healthy, total) == (2 * 10000 * healthy + total) \div (2 * total)

\* analyze_patch_states; success_rate in hundredths of a percent
analyze_patch_states(patch_states) ==
    IF patch_states = <<>>
    THEN [total_instances |-> 0,
          healthy_instances |-> 0,
          problematic_instances |-> 0,
          issues_found |-> <<>>,
          success_rate |-> 0]
    ELSE LET total_instances == Len(patch_states)
             found == issues_found(patch_states)
             healthy_instances == total_instances - Len(found)
         IN  [total_instances |-> total_instances,
              healthy_instances |-> healthy_instances,
              problematic_instances |-> Len(found),
              issues_found |-> found,
              success_rate |-> IF total_instances > 0
                               THEN Rate(healthy_instances, total_instances)
                               ELSE 0]

FailedResult == [done |-> TRUE, success |-> FALSE, total_instances |-> 0,
                 problematic_instances |-> 0]
Analysed(total, problematic) ==
    [done |-> TRUE, success |-> TRUE, total_instances |-> total,
     problematic_instances |-> problematic]

\* summing only the largest successful result
RECURSIVE SumSuccessful_Max(_, _)
SumSuccessful_Max(results, field) ==
    IF results = <<>> THEN 0
    ELSE LET rest == SumSuccessful_Max(Tail(results), field)
             here == IF Head(results).success THEN Head(results)[field] ELSE 0
         IN  IF here > rest THEN here ELSE rest

\* the sum of a field over the results that succeeded
RECURSIVE SumSuccessful(_, _)
SumSuccessful(results, field) ==
    IF results = <<>> THEN 0
    ELSE (IF Head(results).success THEN Head(results)[field] ELSE 0)
         + SumSuccessful(Tail(results), field)

\* overall_issues with an entry for each failed result as well
overall_issues_WithFailed(results) ==
    SelectSeq(results, LAMBDA r : ~r.success \/ r.problematic_instances > 0)

\* overall_issues: one entry for each successful result with problematic instances
overall_issues(results) ==
    SelectSeq(results, LAMBDA r : r.success /\ r.problematic_instances > 0)

VerifyFaults == {"none", "PostVerificationError", "UnexpectedError"}

\* The handler with failed targets counted as issues.
PostEC2Verify_handler_WithFailed(results, fault) ==
    CASE fault = "PostVerificationError" -> [statusCode |-> 400, hasIssues |-> TRUE]
      [] fault = "UnexpectedError" -> [statusCode |-> 500, hasIssues |-> TRUE]
      [] OTHER ->
            [statusCode |-> 200,
             hasIssues |-> Len(overall_issues_WithFailed(results)) > 0,
             summary |-> [total_processes |-> Len(results),
                          successful_processes |-> Len(SelectSeq(results, LAMBDA r : r.success)),
                          failed_processes |-> Len(SelectSeq(results, LAMBDA r : ~r.success)),
                          total_instances |-> SumSuccessful(results, "total_instances"),
                          problematic_instances |->
                              SumSuccessful(results, "problematic_instances")]]

\* handler, given the result of each account-region pair in order: statusCode
\* 200 with hasIssues and the summary; 400 or 500 with hasIssues true when the
\* validation or anything else raises.
PostEC2Verify_handler(results, fault) ==
    CASE fault = "PostVerificationError" -> [statusCode |-> 400, hasIssues |-> TRUE]
      [] fault = "UnexpectedError" -> [statusCode |-> 500, hasIssues |-> TRUE]
      [] OTHER ->
            [statusCode |-> 200,
             hasIssues |-> Len(overall_issues(results)) > 0,
             summary |-> [total_processes |-> Len(results),
                          successful_processes |-> Len(SelectSeq(results, LAMBDA r : r.success)),
                          failed_processes |-> Len(SelectSeq(results, LAMBDA r : ~r.success)),
                          total_instances |-> SumSuccessful(results, "total_instances"),
                          problematic_instances |->
                              SumSuccessful(results, "problematic_instances")]]

\* What a target (account, region) meets: the step that fails there, if any,
\* and the patch states of its instances.
TargetFaults == {"none", "assume_role", "retrieve", "store"}

\* The (account, region) pairs in the order of the handlers' nested loops.
Pairs(accounts, regions) ==
    [i \in 1..(Len(accounts) * Len(regions)) |->
        <<accounts[((i - 1) \div Len(regions)) + 1], regions[((i - 1) % Len(regions)) + 1]>>]

\* process_account_region: role, patch states, analysis, storage; whatever is
\* raised on the way is caught and comes back as a result with success false.
process_account_region(account, region, env) ==
    LET e == env[<<account, region>>]
        analysis == analyze_patch_states(e.states)
    IN  IF e.fault # "none"
        THEN [account |-> account, region |-> region,
              error_type |-> "PostVerificationError"] @@ FailedResult
        ELSE [account |-> account, region |-> region, error_type |-> ""]
             @@ Analysed(analysis.total_instances, analysis.problematic_instances)

\* The results list the handler of PostEC2Verify builds.
verify_results(accounts, regions, env) ==
    LET pairs == Pairs(accounts, regions)
    IN  [i \in 1..Len(pairs) |-> process_account_region(pairs[i][1], pairs[i][2], env)]

\* An account id of an event: the account it names when it is well formed,
\* its length and whether all its characters are digits.
AccountIdLength == 12

AccountId(n, length, digits) == [n |-> n, length |-> length, digits |-> digits]

\* isinstance(account, str) and account.isdigit() and len(account) == 12
valid_account_id(account) == account.digits /\ account.length = AccountIdLength

\* os.environ.get('AWS_REGION', 'us-east-1'): the region the function runs in
DefaultRegion == "us-east-1"

\* event.get(key, default) on a field that is given or absent
event_get(field, default) == IF field.given THEN field.list ELSE default

\* validate_input of PostEC2Verify: the accounts must be a non-empty list of
\* well-formed ids; the regions fall back to the function's own region when
\* the event has none and are not looked at otherwise.
PostEC2Verify_validate_input(event) ==
    LET accounts == event_get(event.accounts, <<>>)
        regions == event_get(event.regions, <<DefaultRegion>>)
    IN  IF \/ accounts = <<>>
           \/ \E i \in 1..Len(accounts) : ~valid_account_id(accounts[i])
        THEN [raised |-> TRUE, accounts |-> <<>>, regions |-> <<>>]
        ELSE [raised |-> FALSE,
              accounts |-> [i \in 1..Len(accounts) |-> accounts[i].n],
              regions |-> regions]

\* The handler of PostEC2Verify on an event: validation, then the loop over
\* the pairs, each pair starting with a request to assume the target's role.
PostEC2Verify_run(event, env) ==
    LET v == PostEC2Verify_validate_input(event)
        results == verify_results(v.accounts, v.regions, env)
    IN  IF v.raised
        THEN [results |-> <<>>,
              response |-> PostEC2Verify_handler(<<>>, "PostVerificationError"),
              calls |-> 0]
        ELSE [results |-> results,
              response |-> PostEC2Verify_handler(results, "none"),
              calls |-> Len(results)]

-----------------------------------------------------------------------------
(* src/terraform/hub/lambda/PreEC2Inventory_PRODUCTION.py *)

\* One pass of the handler's loop body over a pair: a success record, or the
\* failure record of its except branches.
inventory_pair(account, region, env) ==
    LET e == env[<<account, region>>]
    IN  IF e.fault = "none"
        THEN [ok |-> TRUE, account |-> account, region |-> region,
              instance_count |-> Len(e.states), error_type |-> ""]
        ELSE [ok |-> FALSE, account |-> account, region |-> region,
              instance_count |-> 0, error_type |-> "PatchingError"]

RECURSIVE InstanceSum(_)
InstanceSum(records) ==
    IF records = <<>> THEN 0 ELSE Head(records).instance_count + InstanceSum(Tail(records))

\* The handler's response from the records of the pairs it went through. The
\* list of success records the loop appended to results['success'] is
\* replaced by a flag before the response is built, so the response holds the
\* failure records, the flag and the counts.
inventory_response(accounts, regions, records) ==
    LET success == SelectSeq(records, LAMBDA r : r.ok)
        failures == SelectSeq(records, LAMBDA r : ~r.ok)
    IN  [statusCode |-> IF Len(failures) = 0 THEN 200
                        ELSE IF Len(success) > 0 THEN 206 ELSE 500,
         success |-> Len(failures) = 0,
         failures |-> failures,
         summary |-> [total_combinations |-> Len(accounts) * Len(regions),
                      processed |-> Len(success),
                      failed |-> Len(failures),
                      total_instances |-> InstanceSum(success)]]

\* a handler whose loop ends at the first pair that fails
PreEC2Inventory_handler_StopAtFailure(accounts, regions, env) ==
    LET pairs == Pairs(accounts, regions)
        all == [i \in 1..Len(pairs) |-> inventory_pair(pairs[i][1], pairs[i][2], env)]
        bad == {i \in 1..Len(all) : ~all[i].ok}
        last == IF bad = {} THEN Len(all) ELSE CHOOSE i \in bad : \A k \in bad : i <= k
    IN  inventory_response(accounts, regions, SubSeq(all, 1, last))

PreEC2Inventory_handler(accounts, regions, env) ==
    LET pairs == Pairs(accounts, regions)
    IN  inventory_response(accounts, regions,
            [i \in 1..Len(pairs) |-> inventory_pair(pairs[i][1], pairs[i][2], env)])

\* len(region) < 8 is refused
MinRegionLength == 8

\* validate_input of PreEC2Inventory: as PostEC2Verify's, and every region
\* must have at least eight characters.
PreEC2Inventory_validate_input(event) ==
    LET accounts == event_get(event.accounts, <<>>)
        regions == event_get(event.regions, <<DefaultRegion>>)
    IN  IF \/ accounts = <<>>
           \/ \E i \in 1..Len(accounts) : ~valid_account_id(accounts[i])
           \/ \E i \in 1..Len(regions) : Len(regions[i]) < MinRegionLength
        THEN [raised |-> TRUE, accounts |-> <<>>, regions |-> <<>>]
        ELSE [raised |-> FALSE,
              accounts |-> [i \in 1..Len(accounts) |-> accounts[i].n],
              regions |-> regions]

\* the response of the handler's outer except branch
HandlerError ==
    [statusCode |-> 500,
     success |-> FALSE,
     failures |-> <<[ok |-> FALSE, account |-> 0, region |-> "",
                     instance_count |-> 0, error_type |-> "HandlerError"]>>,
     summary |-> [total_combinations |-> 0, processed |-> 0, failed |-> 1,
                  total_instances |-> 0]]

\* The handler of PreEC2Inventory on an event: validation, then the loop.
PreEC2Inventory_run(event, env) ==
    LET v == PreEC2Inventory_validate_input(event)
    IN  IF v.raised
        THEN [response |-> HandlerError, calls |-> 0]
        ELSE [response |-> PreEC2Inventory_handler(v.accounts, v.regions, env),
              calls |-> Len(v.accounts) * Len(v.regions)]

-----------------------------------------------------------------------------
(* Each component at rest: its state in the specifications of the others *)

\* no assume_role request made yet
NoRequest == [DurationSeconds |-> 0, ExternalId |-> FALSE]

\* no poll made yet
NoResult == [statusCode |-> 0]

PollIdle ==
    /\ invocations = <<>>
    /\ fresh = FALSE
    /\ lastPoll = NoResult
    /\ pollCount = 0
    /\ targetOutcome = "none"

DispatchIdle ==
    /\ dEvent = [roleArn |-> "given", region |-> "given", externalId |-> "absent"]
    /\ dPc = "start"
    /\ dAttempt = 0
    /\ dDelay = base
    /\ dSleeps = <<>>
    /\ dCalls = [assume |-> 0, send |-> 0]
    /\ stsRequest = NoRequest
    /\ remoteCommands = 0
    /\ dResult = [kind |-> "none"]

\* no resolution request made yet, no answer yet
NoRequestYet == [via |-> "none"]
NoResponse == [isAuthorized |-> FALSE, statusCode |-> 0, signal |-> NoSignal]

GateIdle ==
    /\ variant = "lambda"
    /\ cont = NoContinuation
    /\ audit = {}
    /\ lastResp = NoResponse
    /\ lastReq = NoRequestYet

\* no link pair sent yet
NoLink == [issued |-> FALSE]

LinkIdle ==
    /\ clock = 0
    /\ secretStore = "k1"
    /\ arnSet = TRUE
    /\ authCache = ""
    /\ link = NoLink
    /\ reqCount = 0

\* the targets of an execution: the k-th target of wave w is <<w, k>>
Targets == (1..NumWaves) \X (1..TargetsPerWave)

\* no result of a target yet
NoReport == [done |-> FALSE]

ExecIdle ==
    /\ abortOnIssues = FALSE
    /\ policy = "gate"
    /\ xStatus = "Running"
    /\ xWave = 1
    /\ xTargets = [t \in Targets |-> "waiting"]
    /\ xReports = [k \in 1..TargetsPerWave |-> NoReport]
    /\ xDecided = [w \in 1..NumWaves |-> "none"]

NoAnalysis == [done |-> FALSE]
NoVerifyResponse == [statusCode |-> 0]

\* the calls of get_secret_value a process of the authorizer has made and the
\* secrets it has obtained from them; counted in the specification of one
\* authorizer process and left at rest in the others
NoSecretCalls == [calls |-> 0, obtained |-> 0]

AuthIdle == secretCalls = NoSecretCalls

\* both tables empty, and no handler run yet
NoRecords == [state |-> {}, audit |-> {}, runs |-> 0]
RecordsIdle == tables = NoRecords

\* no wrapped call under way
NoFunction == [fn |-> "", wrapper |-> "", module |-> "", service |-> "",
               converts |-> "", base |-> 0]
NoOutcome == [kind |-> "none", code |-> ""]

RetryIdle ==
    /\ rFn = NoFunction
    /\ rN = 0
    /\ rAttempt = 0
    /\ rSleeps = <<>>
    /\ rCalls = 0
    /\ rLast = NoOutcome
    /\ rResult = [kind |-> "none", error |-> ""]

\* no event received, no remote call made
NoEvent == [accounts |-> [given |-> FALSE, list |-> <<>>],
            regions |-> [given |-> FALSE, list |-> <<>>]]
NoCalls == [inventory |-> 0, verify |-> 0]

VerifyIdle ==
    /\ vStates = <<>>
    /\ vAnalysis = NoAnalysis
    /\ vAccounts = <<>>
    /\ vEnv = <<>>
    /\ vResults = <<>>
    /\ vResponse = NoVerifyResponse
    /\ vInventory = NoVerifyResponse
    /\ vEvent = NoEvent
    /\ vCalls = NoCalls

-----------------------------------------------------------------------------
(* The dispatch step *)

\* The dispatch handler is given any event.
InitDispatch ==
    /\ AuthIdle
    /\ RetryIdle
    /\ RecordsIdle
    /\ dEvent \in [roleArn : FieldValues, region : FieldValues, externalId : FieldValues]
    /\ dPc = "start"
    /\ dAttempt = 0
    /\ dDelay = base
    /\ dSleeps = <<>>
    /\ dCalls = [assume |-> 0, send |-> 0]
    /\ stsRequest = NoRequest
    /\ remoteCommands = 0
    /\ dResult = [kind |-> "none"]
    /\ PollIdle /\ GateIdle /\ LinkIdle /\ ExecIdle /\ VerifyIdle

\* handler, up to the call of _assume: the required-field check.
DispatchValidate ==
    /\ dPc = "start"
    /\ IF Falsy(dEvent.roleArn) \/ Falsy(dEvent.region)
       THEN /\ dPc' = "raised"
            /\ dResult' = [kind |-> "raised", error |-> "ValueError"]
       ELSE /\ dPc' = "assume"
            /\ UNCHANGED dResult
    /\ UNCHANGED <<dEvent, dAttempt, dDelay, dSleeps, dCalls, stsRequest, remoteCommands>>
    /\ UNCHANGED notDispatch

\* One turn of the wrapper's loop around a call of fn that came to o; on
\* return the handler goes on at pcNext with result.  Each wrapper starts
\* with attempt = 0 and delay = base.
RetryTurn(fn, o, pcNext, result) ==
    LET d == retry_decision(o, dAttempt)
    IN  /\ dCalls' = [dCalls EXCEPT ![fn] = @ + 1]
        /\ CASE d = "return" ->
                   /\ dPc' = pcNext
                   /\ dResult' = result
                   /\ dAttempt' = 0
                   /\ dDelay' = base
                   /\ UNCHANGED dSleeps
             [] d = "retry" ->
                   /\ dSleeps' = Append(dSleeps, dDelay)
                   /\ dAttempt' = dAttempt + 1
                   /\ dDelay' = dDelay * factor
                   /\ UNCHANGED <<dPc, dResult>>
             [] OTHER ->
                   /\ dPc' = "raised"
                   /\ dResult' = [kind |-> "raised", error |-> o.code]
                   /\ UNCHANGED <<dAttempt, dDelay, dSleeps>>

\* The assume_role request of _assume: one hour, and the ExternalId only when
\* the event gives a non-empty one.
AssumeParams(external_id) ==
    [DurationSeconds |-> 3600, ExternalId |-> ~Falsy(external_id)]

\* One call of _assume inside its wrapper.
AssumeAttempt ==
    /\ dPc = "assume"
    /\ stsRequest' = AssumeParams(dEvent.externalId)
    /\ \E o \in {c \in CallOutcomes : c.effect = (c.kind = "ok")} :
          RetryTurn("assume", o, "send", dResult)
    /\ UNCHANGED <<dEvent, remoteCommands>>
    /\ UNCHANGED notDispatch

\* One call of _send_command inside its wrapper: ssm.send_command creates a
\* command whenever the remote side carries the request out; on return the
\* handler returns the CommandId of the response.
SendAttempt ==
    /\ dPc = "send"
    /\ \E o \in CallOutcomes :
          /\ remoteCommands' = remoteCommands + (IF o.effect THEN 1 ELSE 0)
          /\ RetryTurn("send", o, "returned",
                       [kind |-> "returned", CommandId |-> remoteCommands + 1])
    /\ UNCHANGED <<dEvent, stsRequest>>
    /\ UNCHANGED notDispatch

NextDispatch == DispatchValidate \/ AssumeAttempt \/ SendAttempt

SpecDispatch == InitDispatch /\ [][NextDispatch]_vars

-----------------------------------------------------------------------------
(* The command on the SSM side, and the caller's poll loop *)

\* The status an invocation can move to next.
NextStatus(s) ==
    CASE s = "Pending"    -> {"InProgress", "Delayed", "Cancelling"}
      [] s = "Delayed"    -> {"InProgress", "Cancelling"}
      [] s = "InProgress" -> {"Success", "Failed", "TimedOut", "Cancelling"}
      [] s = "Cancelling" -> {"Cancelled", "Success", "Failed"}
      [] OTHER            -> {}

BoundedSeqs(S, n) == UNION {[1..k -> S] : k \in 0..n}

InitPoll ==
    /\ AuthIdle
    /\ RetryIdle
    /\ RecordsIdle
    /\ DispatchIdle /\ GateIdle /\ LinkIdle /\ ExecIdle /\ VerifyIdle
    /\ invocations \in BoundedSeqs(ObservedStatuses, MaxInv)
    /\ fresh = FALSE
    /\ lastPoll = NoResult
    /\ pollCount = 0
    /\ targetOutcome = "none"

\* SSM: one invocation moves on, or one more instance starts the command.
SsmProgress ==
    /\ \/ \E i \in 1..Len(invocations) : \E s \in NextStatus(invocations[i]) :
             invocations' = [invocations EXCEPT ![i] = s]
       \/ /\ Len(invocations) < MaxInv
          /\ invocations' = Append(invocations, "Pending")
    /\ fresh' = FALSE
    /\ UNCHANGED <<lastPoll, pollCount, targetOutcome>>
    /\ UNCHANGED notPoll

\* The caller's verdict after a poll: done when the poll reports all_done, a
\* timeout failure when the budget is used up, a fault when the step raised.
PollVerdict(result, count) ==
    IF result = Raised THEN "fault"
    ELSE IF result.all_done THEN "done"
    ELSE IF count >= PollBudget THEN "timeout"
    ELSE "none"

\* One iteration of the caller's loop: invoke the poll handler, then decide.
PollStep ==
    /\ targetOutcome = "none"
    /\ pollCount < PollBudget
    /\ \E fault \in PollFaults :
          LET result == PollSsmCommand_handler(invocations, fault)
          IN  /\ lastPoll' = result
              /\ fresh' = TRUE
              /\ pollCount' = pollCount + 1
              /\ targetOutcome' = PollVerdict(result, pollCount + 1)
    /\ UNCHANGED invocations
    /\ UNCHANGED notPoll

NextPoll == SsmProgress \/ PollStep

SpecPoll == InitPoll /\ [][NextPoll]_vars

SpecPollFair == SpecPoll /\ WF_vars(PollStep)

-----------------------------------------------------------------------------
(* The status analysis and the poll handler applied to invocation lists of  *)
(* the seven statuses.                                                      *)

\* longest invocation list analysed
MaxAnalysed == 5

\* polls made of one list
Polls == 2

InitAnalyze ==
    /\ AuthIdle
    /\ RetryIdle
    /\ RecordsIdle
    /\ DispatchIdle /\ GateIdle /\ LinkIdle /\ ExecIdle /\ VerifyIdle
    /\ invocations \in BoundedSeqs(InvocationStatuses, MaxAnalysed)
    /\ fresh = FALSE
    /\ lastPoll = NoResult
    /\ pollCount = 0
    /\ targetOutcome = "none"

\* analyze_command_status on the list
Analyse ==
    /\ pollCount = 0
    /\ ~fresh
    /\ lastPoll' = analyze_command_status(invocations)
    /\ fresh' = TRUE
    /\ UNCHANGED <<invocations, pollCount, targetOutcome>>
    /\ UNCHANGED notPoll

\* The poll handler: it lists the invocations and analyses them.
Poll ==
    /\ ~fresh
    /\ pollCount < Polls
    /\ LET got == get_command_invocations(invocations)
       IN  /\ lastPoll' = PollSsmCommand_handler(got.listed, "none")
           /\ invocations' = got.ssm
    /\ pollCount' = pollCount + 1
    /\ UNCHANGED <<fresh, targetOutcome>>
    /\ UNCHANGED notPoll

NextAnalyze == Analyse \/ Poll

SpecAnalyze == InitAnalyze /\ [][NextAnalyze]_vars

-----------------------------------------------------------------------------
(* The approval gate: one continuation suspended, one link pair sent, and   *)
(* resolution requests arriving through the gateway (authorizer, then       *)
(* callback) or at the callback itself.                                     *)

\* one step of the clock, in seconds
TickSeconds == 60 * 60

\* Execution ids an execution can carry into its links.
ExecutionIds == {<<"exec-1">>, <<"x", "&", "y">>}

\* What the requester did to the link before following it: nothing; one
\* symbol of the sig replaced; white space appended to the sig; the token
\* replaced by one the engine never issued; the timestamp moved ahead of the
\* clock by twice the expiry window.
Changes == {"none", "sig_flip", "sig_pad", "token", "future"}

\* The callback reads no sig: the changes that make a difference to it.
DirectChanges == {"none", "token", "future"}

Changed(query, change, now) ==
    CASE change = "sig_flip" ->
            [query EXCEPT !.sig = IF query.sig = <<>> THEN <<"0">>
                                  ELSE [query.sig EXCEPT ![Len(query.sig)] = "~"]]
      [] change = "sig_pad" -> [query EXCEPT !.sig = query.sig \o <<" ">>]
      [] change = "token" -> [query EXCEPT !.token = UnknownToken]
      [] change = "future" ->
            [query EXCEPT !.timestamp = IntTimestamp(now + 2 * max_age_minutes * 60)]
      [] OTHER -> query

\* The faults the attempts of one task call meet, in order: none; one
\* throttled request; one lost response; every request throttled.
FaultSeqs ==
    { [i \in 1..max_retries |-> "none"],
      [i \in 1..max_retries |-> IF i = 1 THEN "throttled" ELSE "none"],
      [i \in 1..max_retries |-> IF i = 1 THEN "lost" ELSE "none"],
      [i \in 1..max_retries |-> "throttled"] }

InitApproval ==
    /\ AuthIdle
    /\ RetryIdle
    /\ RecordsIdle
    /\ PollIdle /\ DispatchIdle /\ ExecIdle /\ VerifyIdle
    /\ variant \in {"lambda", "hub"}
    /\ cont = NoContinuation
    /\ audit = {}
    /\ lastResp = NoResponse
    /\ clock = 0
    /\ secretStore = "k1"
    /\ arnSet \in BOOLEAN
    /\ authCache = ""
    /\ link = NoLink
    /\ reqCount = 0
    /\ lastReq = NoRequestYet

\* Time passes after the links were sent.
Tick ==
    /\ link.issued
    /\ clock < MaxTicks * TickSeconds
    /\ clock' = clock + TickSeconds
    /\ UNCHANGED <<secretStore, arnSet, authCache, link, reqCount>>
    /\ UNCHANGED gateVars
    /\ UNCHANGED notApproval

\* The engine suspends the execution at the gate and hands the continuation's
\* token to SendApprovalRequest, which sends the link pair.
RequestApproval ==
    /\ ~link.issued
    /\ \E execution_id \in ExecutionIds, fetchOk \in BOOLEAN :
          LET secret == SendApprovalRequest_get_signing_secret(arnSet, secretStore, fetchOk)
          IN  link' = [issued |-> TRUE, secret |-> secret,
                       urls |-> create_approval_links(IssuedToken, execution_id, clock, secret)]
    /\ cont' = Suspended(IssuedToken)
    /\ UNCHANGED <<variant, audit, lastResp, lastReq>>
    /\ UNCHANGED <<clock, secretStore, arnSet, authCache, reqCount>>
    /\ UNCHANGED notApproval

\* A link is followed: the gateway calls the authorizer, and the callback only
\* when the authorizer allowed the request.
Resolve ==
    /\ link.issued
    /\ reqCount < MaxRequests
    /\ \E which \in {"approve_url", "reject_url"}, change \in Changes,
          fetchOk \in (IF authCache = "" /\ arnSet THEN BOOLEAN ELSE {TRUE}) :
          LET query == Changed(GatewayQuery(link.urls[which]), change, clock)
              a == ApprovalAuthorizer_handler(query, clock, authCache, arnSet,
                                              secretStore, fetchOk)
          IN  /\ authCache' = a.cached
              /\ lastReq' = [via |-> "gateway", which |-> which, change |-> change,
                             fetchOk |-> fetchOk, at |-> clock, before |-> cont]
              /\ IF a.isAuthorized
                 THEN \E faults \in FaultSeqs :
                         LET r == ApprovalCallback_handler(variant, query, clock, cont,
                                                           audit, faults)
                         IN  /\ cont' = r.cont
                             /\ audit' = r.audit
                             /\ lastResp' = [isAuthorized |-> TRUE,
                                             statusCode |-> r.statusCode,
                                             signal |-> r.signal]
                 ELSE /\ UNCHANGED <<cont, audit>>
                      /\ lastResp' = [isAuthorized |-> FALSE, statusCode |-> 0,
                                      signal |-> NoSignal]
    /\ reqCount' = reqCount + 1
    /\ UNCHANGED <<variant, clock, secretStore, arnSet, link>>
    /\ UNCHANGED notApproval

\* The callback's handler is invoked with the query parameters and no
\* authorizer in front of it.
DirectCallback ==
    /\ link.issued
    /\ reqCount < MaxRequests
    /\ \E which \in {"approve_url", "reject_url"}, change \in DirectChanges,
          faults \in FaultSeqs :
          LET query == Changed(GatewayQuery(link.urls[which]), change, clock)
              r == ApprovalCallback_handler(variant, query, clock, cont, audit, faults)
          IN  /\ lastReq' = [via |-> "direct", which |-> which, change |-> change,
                             fetchOk |-> TRUE, at |-> clock, before |-> cont]
              /\ cont' = r.cont
              /\ audit' = r.audit
              /\ lastResp' = [isAuthorized |-> TRUE, statusCode |-> r.statusCode,
                                 signal |-> r.signal]
    /\ reqCount' = reqCount + 1
    /\ UNCHANGED <<variant, clock, secretStore, arnSet, authCache, link>>
    /\ UNCHANGED notApproval

NextApproval == Tick \/ RequestApproval \/ Resolve \/ DirectCallback

SpecApproval == InitApproval /\ [][NextApproval]_vars

-----------------------------------------------------------------------------
(* One resolution request against a link pair already sent: the query       *)
(* parameters that arrive are those of the link with fields left out,       *)
(* emptied or replaced.                                                     *)

\* the action parameter that arrives: the link's own, none or empty, white
\* space, another case, another word, the link's own after a space
ActionEdits == {"keep", "absent", "blank", "upper", "other", "padded"}
EditedAction(action, e) ==
    CASE e = "absent" -> ""
      [] e = "blank" -> " "
      [] e = "upper" -> "APPROVE"
      [] e = "other" -> "delete"
      [] e = "padded" -> IF action = "approve" THEN " approve" ELSE " reject"
      [] OTHER -> action

TokenEdits == {"keep", "absent", "blank"}
EditedToken(token, e) ==
    CASE e = "absent" -> <<>>
      [] e = "blank" -> <<" ">>
      [] OTHER -> token

\* "text": a timestamp parameter that is no integer
TimestampEdits == {"keep", "absent", "blank", "text"}
EditedTimestamp(timestamp, e) ==
    CASE e = "absent" -> NoTimestamp
      [] e = "blank" -> [kind |-> "blank", n |-> 0]
      [] e = "text" -> [kind |-> "text", n |-> 0]
      [] OTHER -> timestamp

\* "signed": the sig is the signature of the parameters as they arrive, made
\* with the secret the link pair was signed with
SigEdits == {"keep", "absent", "blank", "signed"}

Edited(query, ea, et, ets, es, secret) ==
    LET action == EditedAction(query.action, ea)
        token == EditedToken(query.token, et)
        timestamp == EditedTimestamp(query.timestamp, ets)
        canonical == build_canonical_string(strip(token), TimestampText(timestamp),
                                            strip_text(action), strip(query.executionId))
    IN  [query EXCEPT !.action = action,
                      !.token = token,
                      !.timestamp = timestamp,
                      !.sig = CASE es = "absent" -> <<>>
                                [] es = "blank" -> <<" ">>
                                [] es = "signed" -> sign(canonical, secret)
                                [] OTHER -> query.sig]

\* The link pair of execution exec-1 was sent and the execution waits at the
\* gate; the authorizer is cold or holds the secret already.
InitResolve ==
    /\ AuthIdle
    /\ RetryIdle
    /\ RecordsIdle
    /\ PollIdle /\ DispatchIdle /\ ExecIdle /\ VerifyIdle
    /\ variant \in {"lambda", "hub"}
    /\ cont = Suspended(IssuedToken)
    /\ audit = {}
    /\ lastResp = NoResponse
    /\ clock = 0
    /\ secretStore = "k1"
    /\ arnSet = TRUE
    /\ authCache \in {"", "k1"}
    /\ link = [issued |-> TRUE, secret |-> "k1",
               urls |-> create_approval_links(IssuedToken, <<"exec-1">>, 0, "k1")]
    /\ reqCount = 0
    /\ lastReq = NoRequestYet

\* The request goes through the gateway: the authorizer, then the callback
\* when the authorizer allowed it.
ResolveEdited ==
    /\ reqCount = 0
    /\ \E which \in {"approve_url", "reject_url"}, ea \in ActionEdits, et \in TokenEdits,
          ets \in TimestampEdits, es \in SigEdits :
          LET query == Edited(GatewayQuery(link.urls[which]), ea, et, ets, es, link.secret)
              a == ApprovalAuthorizer_handler(query, clock, authCache, arnSet,
                                              secretStore, TRUE)
          IN  /\ authCache' = a.cached
              /\ lastReq' = [via |-> "gateway", query |-> query, at |-> clock,
                             before |-> cont]
              /\ IF a.isAuthorized
                 THEN \E faults \in FaultSeqs :
                         LET r == ApprovalCallback_handler(variant, query, clock, cont,
                                                           audit, faults)
                         IN  /\ cont' = r.cont
                             /\ audit' = r.audit
                             /\ lastResp' = [isAuthorized |-> TRUE,
                                             statusCode |-> r.statusCode,
                                             signal |-> r.signal]
                 ELSE /\ UNCHANGED <<cont, audit>>
                      /\ lastResp' = [isAuthorized |-> FALSE, statusCode |-> 0,
                                      signal |-> NoSignal]
    /\ reqCount' = reqCount + 1
    /\ UNCHANGED <<variant, clock, secretStore, arnSet, link>>
    /\ UNCHANGED notApproval

\* The callback's handler gets the request with no authorizer in front of it.
CallbackEdited ==
    /\ reqCount = 0
    /\ \E which \in {"approve_url", "reject_url"}, ea \in ActionEdits, et \in TokenEdits,
          ets \in TimestampEdits, es \in SigEdits, faults \in FaultSeqs :
          LET query == Edited(GatewayQuery(link.urls[which]), ea, et, ets, es, link.secret)
              r == ApprovalCallback_handler(variant, query, clock, cont, audit, faults)
          IN  /\ lastReq' = [via |-> "direct", query |-> query, at |-> clock,
                             before |-> cont]
              /\ cont' = r.cont
              /\ audit' = r.audit
              /\ lastResp' = [isAuthorized |-> TRUE, statusCode |-> r.statusCode,
                              signal |-> r.signal]
    /\ reqCount' = reqCount + 1
    /\ UNCHANGED <<variant, clock, secretStore, arnSet, authCache, link>>
    /\ UNCHANGED notApproval

NextResolve == ResolveEdited \/ CallbackEdited

SpecResolve == InitResolve /\ [][NextResolve]_vars

-----------------------------------------------------------------------------
(* One request through the gateway that carries the sig of a link sent and  *)
(* a tuple of parameters of the requester's choosing.                       *)

\* the execution ids of the link pair: a name, and one with colons as an
\* execution ARN has
ArnExecutionIds == {<<"exec-1">>, <<"arn", ":", "x">>}

RequestTokens == {IssuedToken, UnknownToken}

RequestActions == {"approve", "reject", "approve:arn"}

RequestExecutionIds == ArnExecutionIds \cup {<<"x">>}

InitBinding ==
    /\ AuthIdle
    /\ RetryIdle
    /\ RecordsIdle
    /\ PollIdle /\ DispatchIdle /\ ExecIdle /\ VerifyIdle
    /\ variant \in {"lambda", "hub"}
    /\ cont = Suspended(IssuedToken)
    /\ audit = {}
    /\ lastResp = NoResponse
    /\ clock = 0
    /\ secretStore = "k1"
    /\ arnSet = TRUE
    /\ authCache \in {"", "k1"}
    /\ \E execution_id \in ArnExecutionIds :
          link = [issued |-> TRUE, secret |-> "k1",
                  urls |-> create_approval_links(IssuedToken, execution_id, 0, "k1")]
    /\ reqCount = 0
    /\ lastReq = NoRequestYet

\* The gateway gets a request with the sig of one of the two links: the
\* authorizer, then the callback when the authorizer allowed the request.
ResolveWithSigOf ==
    /\ reqCount = 0
    /\ \E which \in {"approve_url", "reject_url"}, token \in RequestTokens,
          action \in RequestActions, execution_id \in RequestExecutionIds :
          LET query == [action |-> action, token |-> token, hasExecutionId |-> TRUE,
                        executionId |-> execution_id,
                        timestamp |-> IntTimestamp(link.urls[which].timestamp),
                        sig |-> link.urls[which].sig]
              a == ApprovalAuthorizer_handler(query, clock, authCache, arnSet,
                                              secretStore, TRUE)
          IN  /\ authCache' = a.cached
              /\ lastReq' = [via |-> "gateway", which |-> which, query |-> query,
                             at |-> clock, before |-> cont]
              /\ IF a.isAuthorized
                 THEN \E faults \in FaultSeqs :
                         LET r == ApprovalCallback_handler(variant, query, clock, cont,
                                                           audit, faults)
                         IN  /\ cont' = r.cont
                             /\ audit' = r.audit
                             /\ lastResp' = [isAuthorized |-> TRUE,
                                             statusCode |-> r.statusCode,
                                             signal |-> r.signal]
                 ELSE /\ UNCHANGED <<cont, audit>>
                      /\ lastResp' = [isAuthorized |-> FALSE, statusCode |-> 0,
                                      signal |-> NoSignal]
    /\ reqCount' = reqCount + 1
    /\ UNCHANGED <<variant, clock, secretStore, arnSet, link>>
    /\ UNCHANGED notApproval

NextBinding == ResolveWithSigOf

SpecBinding == InitBinding /\ [][NextBinding]_vars

-----------------------------------------------------------------------------
(* The wave scheduler: waves in order, the targets of a wave in parallel,   *)
(* the wave's verification, and the approval gate.                          *)

\* the results a target's pipeline can end with
ReportSamples == {FailedResult, Analysed(5, 0), Analysed(5, 2)}

WaveTargets(w) == {t \in Targets : t[1] = w}

\* a target is started when its wave is the one being run
Startable_AnyWave(t, wave) == TRUE

Startable(t, wave) == t[1] = wave

\* the continuation token of the gate after wave w
GateToken(w) == IssuedToken \o <<ToString(w)>>

\* the query parameters of the links sent for the gate after each wave
GateQuery ==
    [w \in 1..NumWaves, which \in {"approve_url", "reject_url"} |->
        GatewayQuery(create_approval_links(GateToken(w), <<"exec-1">>, 0, "k1")[which])]

InitExec ==
    /\ AuthIdle
    /\ RetryIdle
    /\ RecordsIdle
    /\ PollIdle /\ DispatchIdle /\ LinkIdle /\ VerifyIdle
    /\ variant \in {"lambda", "hub"}
    /\ cont = NoContinuation
    /\ audit = {}
    /\ lastResp = NoResponse
    /\ lastReq = NoRequestYet
    /\ abortOnIssues \in BOOLEAN
    /\ policy \in {"gate", "halt"}
    /\ xStatus = "Running"
    /\ xWave = 1
    /\ xTargets = [t \in Targets |-> "waiting"]
    /\ xReports = [k \in 1..TargetsPerWave |-> NoReport]
    /\ xDecided = [w \in 1..NumWaves |-> "none"]

\* a scheduler that starts targets whatever the execution's status
StartTarget_AnyStatus(t) ==
    /\ xTargets[t] = "waiting"
    /\ Startable(t, xWave)
    /\ xTargets' = [xTargets EXCEPT ![t] = "running"]
    /\ UNCHANGED <<abortOnIssues, policy, xStatus, xWave, xReports, xDecided>>
    /\ UNCHANGED gateVars
    /\ UNCHANGED notExec

StartTarget(t) ==
    /\ xStatus = "Running"
    /\ xTargets[t] = "waiting"
    /\ Startable(t, xWave)
    /\ xTargets' = [xTargets EXCEPT ![t] = "running"]
    /\ UNCHANGED <<abortOnIssues, policy, xStatus, xWave, xReports, xDecided>>
    /\ UNCHANGED gateVars
    /\ UNCHANGED notExec

\* pipelines that are dropped when the execution is no longer running
FinishTarget_WhileRunning(t) ==
    /\ xStatus = "Running"
    /\ xTargets[t] = "running"
    /\ xTargets' = [xTargets EXCEPT ![t] = "finished"]
    /\ \E r \in ReportSamples : xReports' = [xReports EXCEPT ![t[2]] = r]
    /\ UNCHANGED <<abortOnIssues, policy, xStatus, xWave, xDecided>>
    /\ UNCHANGED gateVars
    /\ UNCHANGED notExec

\* A target's pipeline ends, in success or failure, and leaves its result;
\* a pipeline already started ends whatever the execution's status.
FinishTarget(t) ==
    /\ xTargets[t] = "running"
    /\ xTargets' = [xTargets EXCEPT ![t] = "finished"]
    /\ \E r \in ReportSamples : xReports' = [xReports EXCEPT ![t[2]] = r]
    /\ UNCHANGED <<abortOnIssues, policy, xStatus, xWave, xDecided>>
    /\ UNCHANGED gateVars
    /\ UNCHANGED notExec

\* the execution moves on from wave w
Proceed(w, decision) ==
    /\ xDecided' = [xDecided EXCEPT ![w] = decision]
    /\ IF w = NumWaves
       THEN /\ xStatus' = "Completed"
            /\ UNCHANGED <<xWave, xReports>>
       ELSE /\ xStatus' = "Running"
            /\ xWave' = w + 1
            /\ xReports' = [k \in 1..TargetsPerWave |-> NoReport]

\* All targets of the wave have finished: the wave is verified and the
\* continue-or-abort decision made.  A verification that returns an error
\* result fails the execution.
WaveDecision ==
    /\ xStatus = "Running"
    /\ xDecided[xWave] = "none"
    /\ \A t \in WaveTargets(xWave) : xTargets[t] = "finished"
    /\ \E fault \in VerifyFaults :
          LET v == PostEC2Verify_handler(xReports, fault)
          IN  IF v.statusCode # 200
              THEN /\ xStatus' = "Failed"
                   /\ xDecided' = [xDecided EXCEPT ![xWave] = "error"]
                   /\ UNCHANGED <<xWave, xReports, cont>>
              ELSE IF abortOnIssues /\ v.hasIssues
              THEN IF policy = "gate"
                   THEN /\ xStatus' = "AwaitingApproval"
                        /\ xDecided' = [xDecided EXCEPT ![xWave] = "gate"]
                        /\ cont' = Suspended(GateToken(xWave))
                        /\ UNCHANGED <<xWave, xReports>>
                   ELSE /\ xStatus' = "Aborted"
                        /\ xDecided' = [xDecided EXCEPT ![xWave] = "halt"]
                        /\ UNCHANGED <<xWave, xReports, cont>>
              ELSE /\ Proceed(xWave, "proceed")
                   /\ UNCHANGED cont
    /\ UNCHANGED <<abortOnIssues, policy, xTargets>>
    /\ UNCHANGED <<variant, audit, lastResp, lastReq>>
    /\ UNCHANGED notExec

\* A link of some gate of this execution is followed and reaches the callback;
\* when the callback's signal resolves the suspended continuation the engine
\* resumes the execution: onwards on success, Aborted on failure.
ApprovalDecision ==
    /\ \E w \in 1..NumWaves, which \in {"approve_url", "reject_url"}, faults \in FaultSeqs :
          /\ xDecided[w] \in {"gate", "approved", "rejected"}
          /\ LET r == ApprovalCallback_handler(variant, GateQuery[w, which], 0, cont,
                                               audit, faults)
             IN  /\ cont' = r.cont
                 /\ audit' = r.audit
                 /\ lastResp' = [isAuthorized |-> TRUE, statusCode |-> r.statusCode,
                                 signal |-> r.signal]
                 /\ lastReq' = [via |-> "direct", which |-> which, change |-> "none",
                                fetchOk |-> TRUE, at |-> 0, before |-> cont]
                 /\ IF xStatus = "AwaitingApproval" /\ cont.status = "pending"
                       /\ r.cont.status = "succeeded"
                    THEN Proceed(xWave, "approved")
                    ELSE IF xStatus = "AwaitingApproval" /\ cont.status = "pending"
                            /\ r.cont.status = "failed"
                    THEN /\ xStatus' = "Aborted"
                         /\ xDecided' = [xDecided EXCEPT ![xWave] = "rejected"]
                         /\ UNCHANGED <<xWave, xReports>>
                    ELSE UNCHANGED <<xStatus, xWave, xReports, xDecided>>
    /\ UNCHANGED <<abortOnIssues, policy, xTargets>>
    /\ UNCHANGED variant
    /\ UNCHANGED notExec

\* An unrecoverable error ends the execution.
ExecutionFails ==
    /\ xStatus = "Running"
    /\ xStatus' = "Failed"
    /\ UNCHANGED <<abortOnIssues, policy, xWave, xTargets, xReports, xDecided>>
    /\ UNCHANGED gateVars
    /\ UNCHANGED notExec

\* The execution is aborted while a wave is running.
AbortExecution ==
    /\ xStatus = "Running"
    /\ xStatus' = "Aborted"
    /\ xDecided' = [xDecided EXCEPT ![xWave] = "aborted"]
    /\ UNCHANGED <<abortOnIssues, policy, xWave, xTargets, xReports>>
    /\ UNCHANGED gateVars
    /\ UNCHANGED notExec

NextExec ==
    \/ \E t \in Targets : StartTarget(t)
    \/ \E t \in Targets : FinishTarget(t)
    \/ WaveDecision
    \/ ApprovalDecision
    \/ ExecutionFails
    \/ AbortExecution

SpecExec == InitExec /\ [][NextExec]_vars

\* a pipeline that was started is run to its end
SpecExecFair == SpecExec /\ \A t \in Targets : WF_vars(FinishTarget(t))

-----------------------------------------------------------------------------
(* analyze_patch_states applied to lists of patch states *)

\* longest list of patch states analysed
MaxStates == 3

\* largest MissingCount and FailedCount of a patch state
MaxCount == 1

PatchStateLists ==
    UNION { { [i \in 1..k |-> PatchState(i, c[i][1], c[i][2])] :
                c \in [1..k -> (0..MaxCount) \X (0..MaxCount)] } : k \in 0..MaxStates }

InitPatchAnalysis ==
    /\ AuthIdle
    /\ RetryIdle
    /\ RecordsIdle
    /\ PollIdle /\ DispatchIdle /\ GateIdle /\ LinkIdle /\ ExecIdle
    /\ vStates \in PatchStateLists
    /\ vAnalysis = NoAnalysis
    /\ vAccounts = <<>>
    /\ vEnv = <<>>
    /\ vResults = <<>>
    /\ vResponse = NoVerifyResponse
    /\ vInventory = NoVerifyResponse
    /\ vEvent = NoEvent
    /\ vCalls = NoCalls

AnalysePatchStates ==
    /\ vAnalysis = NoAnalysis
    /\ vAnalysis' = [done |-> TRUE] @@ analyze_patch_states(vStates)
    /\ UNCHANGED <<vStates, vAccounts, vEnv, vResults, vResponse, vInventory, vEvent, vCalls>>
    /\ UNCHANGED notVerify

NextPatchAnalysis == AnalysePatchStates

SpecPatchAnalysis == InitPatchAnalysis /\ [][NextPatchAnalysis]_vars

-----------------------------------------------------------------------------
(* A run of PreEC2Inventory and of PostEC2Verify over accounts x regions *)

\* accounts of the event
NumAccounts == 2

Regions == <<"us-east-1", "eu-west-1">>

\* the accounts in ascending and in descending order
AccountOrders ==
    { [i \in 1..NumAccounts |-> i], [i \in 1..NumAccounts |-> NumAccounts + 1 - i] }

\* two instances, both patched
CleanStates == <<PatchState(1, 0, 0), PatchState(2, 0, 0)>>

\* five instances, three of them with missing or failed patches
ProblemStates ==
    <<PatchState(1, 1, 0), PatchState(2, 0, 1), PatchState(3, 1, 1),
      PatchState(4, 0, 0), PatchState(5, 0, 0)>>

TargetKinds ==
    { [fault |-> "none", states |-> CleanStates],
      [fault |-> "none", states |-> ProblemStates],
      [fault |-> "assume_role", states |-> <<>>],
      [fault |-> "retrieve", states |-> <<>>],
      [fault |-> "store", states |-> CleanStates],
      [fault |-> "store", states |-> ProblemStates] }

RegionSet == {Regions[i] : i \in 1..Len(Regions)}

InitVerifyRun ==
    /\ AuthIdle
    /\ RetryIdle
    /\ RecordsIdle
    /\ PollIdle /\ DispatchIdle /\ GateIdle /\ LinkIdle /\ ExecIdle
    /\ vStates = <<>>
    /\ vAnalysis = NoAnalysis
    /\ vAccounts \in AccountOrders
    /\ vEnv \in [(1..NumAccounts) \X RegionSet -> TargetKinds]
    /\ vResults = <<>>
    /\ vResponse = NoVerifyResponse
    /\ vInventory = NoVerifyResponse
    /\ vEvent = NoEvent
    /\ vCalls = NoCalls

\* PreEC2Inventory's handler on the event
Inventory ==
    /\ vInventory = NoVerifyResponse
    /\ vInventory' = PreEC2Inventory_handler(vAccounts, Regions, vEnv)
    /\ UNCHANGED <<vStates, vAnalysis, vAccounts, vEnv, vResults, vResponse, vEvent, vCalls>>
    /\ UNCHANGED notVerify

\* PostEC2Verify's handler on the event
Verify ==
    /\ vResponse = NoVerifyResponse
    /\ LET results == verify_results(vAccounts, Regions, vEnv)
       IN  /\ vResults' = results
           /\ vResponse' = PostEC2Verify_handler(results, "none")
    /\ UNCHANGED <<vStates, vAnalysis, vAccounts, vEnv, vInventory, vEvent, vCalls>>
    /\ UNCHANGED notVerify

NextVerifyRun == Inventory \/ Verify

SpecVerifyRun == InitVerifyRun /\ [][NextVerifyRun]_vars

-----------------------------------------------------------------------------
(* The credentials of the two PostEC2Verify handlers over accounts x regions: *)
(* src/lambda/PostEC2Verify.py and src/terraform/hub/lambda/PostEC2Verify.py *)

\* assume_role called without DurationSeconds: the session lasts the
\* service's default, one hour
DefaultDurationSeconds == 3600

\* What the handler of src/lambda/PostEC2Verify.py does with credentials for
\* the i-th pair: process_account_region assumes the role for the pair, for
\* one hour, hands the credentials to get_patch_states and returns; the
\* credentials are a local of that call.
process_account_region_credentials(pairs, env, i) ==
    LET e == env[pairs[i]]
    IN  [target |-> pairs[i],
         requested |-> TRUE,
         DurationSeconds |-> 3600,
         credentials |-> IF e.fault = "assume_role" THEN 0 ELSE i,
         used |-> e.fault # "assume_role",
         kept |-> FALSE]

\* The pair at which the hub handler raises: it has no try, so the first
\* failing call ends the run.  The role is assumed once for an account,
\* before its first region.
HubStopsAt(pairs, regions, env, i) ==
    \/ env[pairs[i]].fault \in {"retrieve", "store"}
    \/ env[pairs[i]].fault = "assume_role" /\ (i - 1) % Len(regions) = 0

\* What the hub handler does with credentials for the i-th pair: the
\* credentials c of the account's assume_role call, made before the loop over
\* the regions, are used for the pair and stay bound when the pair is done.
hub_pair_credentials(pairs, regions, env, i) ==
    LET first == i - ((i - 1) % Len(regions))
        assumed == ~(env[pairs[first]].fault = "assume_role")
    IN  [target |-> pairs[i],
         requested |-> i = first,
         DurationSeconds |-> DefaultDurationSeconds,
         credentials |-> IF assumed THEN first ELSE 0,
         used |-> assumed,
         kept |-> assumed]

\* The pairs the hub handler reaches: up to the first one at which it raises.
HubReached(pairs, regions, env) ==
    LET stops == {i \in 1..Len(pairs) : HubStopsAt(pairs, regions, env, i)}
    IN  IF stops = {} THEN Len(pairs)
        ELSE CHOOSE i \in stops : \A j \in stops : i <= j

\* The hub handler's answer: hasIssues of the patch states it saw, or the
\* exception of the first failing call.
hub_handler(accounts, regions, env) ==
    LET pairs == Pairs(accounts, regions)
        reached == HubReached(pairs, regions, env)
        raised == \E i \in 1..Len(pairs) : HubStopsAt(pairs, regions, env, i)
    IN  [trace |-> [i \in 1..reached |-> hub_pair_credentials(pairs, regions, env, i)],
         response |-> IF raised THEN Raised
                      ELSE [hasIssues |->
                               \E i \in 1..Len(pairs) : \E k \in 1..Len(env[pairs[i]].states) :
                                  has_issues(env[pairs[i]].states[k])]]

InitCredentials == InitVerifyRun

\* The handler of src/lambda/PostEC2Verify.py on the event
VerifyWithOwnCredentials ==
    /\ vCalls = NoCalls
    /\ LET results == verify_results(vAccounts, Regions, vEnv)
           pairs == Pairs(vAccounts, Regions)
       IN  /\ vResults' = results
           /\ vResponse' = PostEC2Verify_handler(results, "none")
           /\ vCalls' = [inventory |-> 0, verify |-> Len(pairs), handler |-> "lambda",
                         trace |-> [i \in 1..Len(pairs) |->
                                       process_account_region_credentials(pairs, vEnv, i)]]
    /\ UNCHANGED <<vStates, vAnalysis, vAccounts, vEnv, vInventory, vEvent>>
    /\ UNCHANGED notVerify

\* The handler of src/terraform/hub/lambda/PostEC2Verify.py on the event
HubVerify ==
    /\ vCalls = NoCalls
    /\ LET run == hub_handler(vAccounts, Regions, vEnv)
       IN  /\ vResponse' = run.response
           /\ vCalls' = [inventory |-> 0, verify |-> Len(run.trace), handler |-> "hub",
                         trace |-> run.trace]
    /\ UNCHANGED <<vStates, vAnalysis, vAccounts, vEnv, vResults, vInventory, vEvent>>
    /\ UNCHANGED notVerify

NextCredentials == VerifyWithOwnCredentials \/ HubVerify

SpecCredentials == InitCredentials /\ [][NextCredentials]_vars

-----------------------------------------------------------------------------
(* The records PostEC2Verify and ApprovalCallback write, over runs and days *)

\* handler runs looked at
MaxRuns == 2

\* days the runs are spread over
MaxDays == 2

SecondsPerDay == 24 * 60 * 60

\* datetime.utcnow().strftime('%Y/%m/%d'): the day of the time now
today(now) == now \div SecondsPerDay

\* The primary key of an item: scope and id in the state table, the audit_id
\* in the audit table.
KeyOf(item) ==
    IF "audit_id" \in DOMAIN item THEN <<item.audit_id>> ELSE <<item.scope, item.id>>

\* table.put_item(Item=item), with no condition: the item takes the place of
\* the item that has its key
put_item(items, item) == {r \in items : KeyOf(r) # KeyOf(item)} \cup {item}

\* ddb_record of process_account_region with what store_results_dynamodb
\* adds to it
ddb_record(result, execution_id, now) ==
    [scope |-> "EC2#POST",
     id |-> <<result.account, result.region, today(now)>>,
     execution_id |-> execution_id,
     total_instances |-> result.total_instances,
     problematic_instances |-> result.problematic_instances,
     created_at |-> now]

\* The state table after the handler of PostEC2Verify has gone through the
\* results from the i-th on: a pair that went through has its record put.
RECURSIVE store_results_dynamodb(_, _, _, _, _)
store_results_dynamodb(items, results, execution_id, now, i) ==
    IF i > Len(results) THEN items
    ELSE store_results_dynamodb(
             IF results[i].success
             THEN put_item(items, ddb_record(results[i], execution_id, now))
             ELSE items,
             results, execution_id, now, i + 1)

\* The item log_approval_decision puts into the audit table; uuid4 gives an
\* id no item has.
audit_item(items, action, now) ==
    [audit_id |-> Cardinality(items) + 1, action |-> action, timestamp |-> now]

\* the accounts of the runs
RecordAccounts == <<1>>

InitRecords ==
    /\ AuthIdle
    /\ RetryIdle
    /\ RecordsIdle
    /\ PollIdle /\ DispatchIdle /\ ExecIdle /\ VerifyIdle
    /\ variant \in {"lambda", "hub"}
    /\ cont = Suspended(IssuedToken)
    /\ audit = {}
    /\ lastResp = NoResponse
    /\ clock = 0
    /\ secretStore = "k1"
    /\ arnSet = TRUE
    /\ authCache = ""
    /\ link = [issued |-> TRUE, secret |-> "k1",
               urls |-> create_approval_links(IssuedToken, <<"exec-1">>, 0, "k1")]
    /\ reqCount = 0
    /\ lastReq = NoRequestYet

\* Half a day goes by.
HalfDayPasses ==
    /\ clock + SecondsPerDay \div 2 < MaxDays * SecondsPerDay
    /\ clock' = clock + SecondsPerDay \div 2
    /\ UNCHANGED <<secretStore, arnSet, authCache, link, reqCount>>
    /\ UNCHANGED gateVars
    /\ UNCHANGED <<pollVars, dispVars, execVars, verifyVars, retryVars, authVars, recordVars>>

\* The handler of PostEC2Verify runs over the regions of the account: each
\* pair that goes through writes its completion record.
VerifyAndRecord ==
    /\ tables.runs < MaxRuns
    /\ \E env \in [{RecordAccounts[1]} \X RegionSet -> TargetKinds] :
          LET results == verify_results(RecordAccounts, Regions, env)
          IN  tables' = [tables EXCEPT
                            !.state = store_results_dynamodb(tables.state, results,
                                                             tables.runs + 1, clock, 1),
                            !.runs = tables.runs + 1]
    /\ UNCHANGED <<linkVars, gateVars>>
    /\ UNCHANGED <<pollVars, dispVars, execVars, verifyVars, retryVars, authVars>>

\* The callback's handler on a link followed: a request that passes the
\* validation has its decision logged, and stored in the audit table when
\* AUDIT_TABLE is set and the put goes through; then the signal.
DecideAndRecord ==
    /\ tables.runs < MaxRuns
    /\ \E which \in {"approve_url", "reject_url"}, faults \in FaultSeqs, stored \in BOOLEAN :
          LET query == GatewayQuery(link.urls[which])
              r == ApprovalCallback_handler(variant, query, clock, cont, audit, faults)
              passed == ~validate_request(query, clock).raised
          IN  /\ lastReq' = [via |-> "direct", query |-> query, at |-> clock,
                             before |-> cont]
              /\ cont' = r.cont
              /\ audit' = r.audit
              /\ lastResp' = [isAuthorized |-> TRUE, statusCode |-> r.statusCode,
                              signal |-> r.signal]
              /\ tables' = [tables EXCEPT
                               !.audit = IF passed /\ stored
                                         THEN put_item(tables.audit,
                                                  audit_item(tables.audit, query.action, clock))
                                         ELSE tables.audit,
                               !.runs = tables.runs + 1]
    /\ UNCHANGED <<variant, linkVars>>
    /\ UNCHANGED <<pollVars, dispVars, execVars, verifyVars, retryVars, authVars>>

NextRecords == HalfDayPasses \/ VerifyAndRecord \/ DecideAndRecord

SpecRecords == InitRecords /\ [][NextRecords]_vars

-----------------------------------------------------------------------------
(* PreEC2Inventory and PostEC2Verify on events as they arrive *)

\* the accounts an event may carry: none, well-formed ids, an id that is too
\* short, an id with a character that is no digit
AccountLists ==
    { <<>>,
      <<AccountId(1, AccountIdLength, TRUE)>>,
      [i \in 1..NumAccounts |-> AccountId(i, AccountIdLength, TRUE)],
      <<AccountId(1, AccountIdLength - 1, TRUE)>>,
      <<AccountId(1, AccountIdLength, TRUE), AccountId(NumAccounts, AccountIdLength, FALSE)>> }

\* the regions an event may carry
RegionLists ==
    { <<>>, <<"us-east-1">>, Regions, <<"us">>, <<"eu-west-1", "us">> }

EventRegions == {"us-east-1", "eu-west-1", "us"}

Fields(lists) ==
    {[given |-> FALSE, list |-> <<>>]} \cup {[given |-> TRUE, list |-> l] : l \in lists}

\* a target that is processed and one whose role cannot be assumed
EventTargetKinds ==
    { [fault |-> "none", states |-> CleanStates],
      [fault |-> "assume_role", states |-> <<>>] }

InitValidate ==
    /\ AuthIdle
    /\ RetryIdle
    /\ RecordsIdle
    /\ PollIdle /\ DispatchIdle /\ GateIdle /\ LinkIdle /\ ExecIdle
    /\ vStates = <<>>
    /\ vAnalysis = NoAnalysis
    /\ vAccounts = <<>>
    /\ vEnv \in [(1..NumAccounts) \X EventRegions -> EventTargetKinds]
    /\ vResults = <<>>
    /\ vResponse = NoVerifyResponse
    /\ vInventory = NoVerifyResponse
    /\ vEvent \in [accounts : Fields(AccountLists), regions : Fields(RegionLists)]
    /\ vCalls = NoCalls

\* PreEC2Inventory's handler on the event
InventoryEvent ==
    /\ vInventory = NoVerifyResponse
    /\ LET run == PreEC2Inventory_run(vEvent, vEnv)
       IN  /\ vInventory' = run.response
           /\ vCalls' = [vCalls EXCEPT !.inventory = run.calls]
    /\ UNCHANGED <<vStates, vAnalysis, vAccounts, vEnv, vResults, vResponse, vEvent>>
    /\ UNCHANGED notVerify

\* PostEC2Verify's handler on the event
VerifyEvent ==
    /\ vResponse = NoVerifyResponse
    /\ LET run == PostEC2Verify_run(vEvent, vEnv)
       IN  /\ vResults' = run.results
           /\ vResponse' = run.response
           /\ vCalls' = [vCalls EXCEPT !.verify = run.calls]
    /\ UNCHANGED <<vStates, vAnalysis, vAccounts, vEnv, vInventory, vEvent>>
    /\ UNCHANGED notVerify

NextValidate == InventoryEvent \/ VerifyEvent

SpecValidate == InitValidate /\ [][NextValidate]_vars

-----------------------------------------------------------------------------
(* One process of the authorizer over a sequence of invocations, the secret *)
(* in the store being rotated meanwhile.                                    *)

\* invocations of one process
MaxInvocations == 3

\* the secrets the store holds, before and after a rotation
StoredSecrets == {"k1", "k2"}

\* the approve link as the sender signs it with each secret, and unsigned
SignedQuery ==
    [k \in StoredSecrets \cup {""} |->
        GatewayQuery(create_approval_links(IssuedToken, <<"exec-1">>, 0, k)["approve_url"])]

InitAuthorizer ==
    /\ RetryIdle
    /\ RecordsIdle
    /\ PollIdle /\ DispatchIdle /\ ExecIdle /\ VerifyIdle
    /\ variant = "lambda"
    /\ cont = Suspended(IssuedToken)
    /\ audit = {}
    /\ lastResp = NoResponse
    /\ lastReq = NoRequestYet
    /\ clock = 0
    /\ secretStore = "k1"
    /\ arnSet \in BOOLEAN
    /\ authCache = ""
    /\ link = NoLink
    /\ reqCount = 0
    /\ secretCalls = NoSecretCalls

\* The secret in the store is replaced.
RotateSecret ==
    /\ secretStore = "k1"
    /\ secretStore' = "k2"
    /\ UNCHANGED <<clock, arnSet, authCache, link, reqCount, secretCalls>>
    /\ UNCHANGED gateVars
    /\ UNCHANGED <<pollVars, dispVars, execVars, verifyVars, retryVars, recordVars>>

\* The process handles one more request: a link signed with one of the
\* secrets, or an unsigned one; a call of get_secret_value may fail.
Authorize ==
    /\ reqCount < MaxInvocations
    /\ \E k \in StoredSecrets \cup {""},
          fetchOk \in (IF authCache = "" THEN BOOLEAN ELSE {TRUE}) :
          LET a == ApprovalAuthorizer_handler(SignedQuery[k], clock, authCache, arnSet,
                                              secretStore, fetchOk)
          IN  /\ authCache' = a.cached
              /\ secretCalls' =
                    [calls |-> secretCalls.calls + (IF a.fetched THEN 1 ELSE 0),
                     obtained |-> secretCalls.obtained
                                    + (IF a.fetched /\ a.cached # "" THEN 1 ELSE 0)]
              /\ lastReq' = [via |-> "authorizer", signedWith |-> k, fetchOk |-> fetchOk,
                             at |-> clock, before |-> authCache]
              /\ lastResp' = [isAuthorized |-> a.isAuthorized, statusCode |-> 0,
                              signal |-> NoSignal]
    /\ reqCount' = reqCount + 1
    /\ UNCHANGED <<variant, cont, audit>>
    /\ UNCHANGED <<clock, secretStore, arnSet, link>>
    /\ UNCHANGED <<pollVars, dispVars, execVars, verifyVars, retryVars, recordVars>>

NextAuthorizer == RotateSecret \/ Authorize

SpecAuthorizer == InitAuthorizer /\ [][NextAuthorizer]_vars

-----------------------------------------------------------------------------
(* The retry wrappers: _retry of SendSsmCommand and retry_with_backoff of    *)
(* the other steps, around the functions they decorate.                      *)

\* most attempts a wrapper is configured with
MaxAttempts == 3

\* The decorated functions: the wrapper, the service of the remote call, the
\* exception the function turns a ClientError into before the wrapper sees
\* it ("" when it lets the ClientError through), and base_delay.
WrappedFunctions ==
    { [fn |-> "_assume", wrapper |-> "_retry", module |-> "SendSsmCommand",
       service |-> "sts", converts |-> "", base |-> 1],
      [fn |-> "_send_command", wrapper |-> "_retry", module |-> "SendSsmCommand",
       service |-> "ssm", converts |-> "", base |-> 1],
      [fn |-> "assume_cross_account_role", wrapper |-> "retry_with_backoff",
       module |-> "PollSsmCommand", service |-> "sts",
       converts |-> "SSMPollingError", base |-> 1],
      [fn |-> "get_command_invocations", wrapper |-> "retry_with_backoff",
       module |-> "PollSsmCommand", service |-> "ssm",
       converts |-> "SSMPollingError", base |-> 1],
      [fn |-> "get_patch_states", wrapper |-> "retry_with_backoff",
       module |-> "PostEC2Verify", service |-> "ssm",
       converts |-> "PostVerificationError", base |-> 2],
      [fn |-> "send_task_success", wrapper |-> "retry_with_backoff",
       module |-> "ApprovalCallback", service |-> "stepfunctions",
       converts |-> "", base |-> 1],
      [fn |-> "send_task_failure", wrapper |-> "retry_with_backoff",
       module |-> "ApprovalCallback", service |-> "stepfunctions",
       converts |-> "", base |-> 1] }

\* the error codes each service answers with, among them the transient ones
ServiceCodes(service) ==
    CASE service = "sts" -> {"Throttling", "ServiceUnavailable", "AccessDenied"}
      [] service = "ssm" ->
            {"ThrottlingException", "InternalError", "AccessDeniedException",
             "ValidationException"}
      [] OTHER ->
            {"ThrottlingException", "AccessDeniedException", "ResourceNotFound",
             "InvalidParameterValue", "TaskTimedOut", "TaskDoesNotExist"}

\* what one remote call can come to
RemoteOutcomes(service) ==
    {[kind |-> "ok", code |-> ""], [kind |-> "BotoCoreError", code |-> "Unknown"]}
    \cup {[kind |-> "ClientError", code |-> c] : c \in ServiceCodes(service)}

\* the codes each retry_with_backoff raises again at once
non_retryable(module) ==
    CASE module = "PollSsmCommand" -> {"ValidationException", "AccessDeniedException"}
      [] module = "PostEC2Verify" -> {"ValidationException", "AccessDenied", "InvalidInstanceId"}
      [] OTHER -> NonRetryableTaskCodes

\* What the decorated function hands to its wrapper when its remote call
\* came to o: the value, the exception, or the module's own exception in
\* place of a ClientError caught inside the function.
raised_to_wrapper(f, o) ==
    IF o.kind = "ClientError" /\ f.converts # ""
    THEN [kind |-> f.converts, code |-> ""]
    ELSE o

\* a wrapper that allows one attempt more than it is configured with
wrapper_turn_OneMore(f, n, e, attempt) ==
    IF e.kind = "ok" THEN "return"
    ELSE IF e.kind \notin {"ClientError", "BotoCoreError"} THEN "raise"
    ELSE IF attempt >= n THEN "raise"
    ELSE IF f.wrapper = "_retry" /\ e.code \notin RetryableCodes THEN "raise"
    ELSE IF f.wrapper # "_retry" /\ e.code \in non_retryable(f.module) THEN "raise"
    ELSE "retry"

\* One turn of a wrapper configured with n attempts, the function having
\* handed it e on attempt number attempt (0-based).
wrapper_turn(f, n, e, attempt) ==
    IF e.kind = "ok" THEN "return"
    ELSE IF f.wrapper = "_retry"
    THEN IF e.kind = "ClientError" /\ e.code \in RetryableCodes /\ attempt < n - 1
         THEN "retry" ELSE "raise"
    ELSE IF e.kind \notin {"ClientError", "BotoCoreError"} THEN "raise"
    ELSE IF attempt = n - 1 THEN "raise"
    ELSE IF e.code \in non_retryable(f.module) THEN "raise"
    ELSE "retry"

\* the delay slept after the failure of attempt number attempt
backoff_delay(f, attempt) == f.base * (2 ^ attempt)

InitRetry ==
    /\ AuthIdle
    /\ RecordsIdle
    /\ PollIdle /\ DispatchIdle /\ GateIdle /\ LinkIdle /\ ExecIdle /\ VerifyIdle
    /\ rFn \in WrappedFunctions
    /\ rN \in 1..MaxAttempts
    /\ rAttempt = 0
    /\ rSleeps = <<>>
    /\ rCalls = 0
    /\ rLast = NoOutcome
    /\ rResult = [kind |-> "running", error |-> ""]

\* One turn of the wrapper's loop: the function is called, its remote call
\* comes to o, and the wrapper returns, sleeps and goes round, or raises.
WrappedCall ==
    /\ rResult.kind = "running"
    /\ \E o \in RemoteOutcomes(rFn.service) :
          LET e == raised_to_wrapper(rFn, o)
              d == wrapper_turn(rFn, rN, e, rAttempt)
          IN  /\ rCalls' = rCalls + 1
              /\ rLast' = o
              /\ CASE d = "return" ->
                         /\ rResult' = [kind |-> "returned", error |-> ""]
                         /\ UNCHANGED <<rAttempt, rSleeps>>
                   [] d = "retry" ->
                         /\ rSleeps' = Append(rSleeps, backoff_delay(rFn, rAttempt))
                         /\ rAttempt' = rAttempt + 1
                         /\ UNCHANGED rResult
                   [] OTHER ->
                         /\ rResult' = [kind |-> "raised",
                                        error |-> IF e.kind = "ClientError"
                                                  THEN e.code ELSE e.kind]
                         /\ UNCHANGED <<rAttempt, rSleeps>>
    /\ UNCHANGED <<rFn, rN>>
    /\ UNCHANGED <<pollVars, dispVars, gateVars, linkVars, execVars, verifyVars, authVars, recordVars>>

NextRetry == WrappedCall

SpecRetry == InitRetry /\ [][NextRetry]_vars

SpecRetryFair == SpecRetry /\ WF_vars(WrappedCall)

-----------------------------------------------------------------------------
(* Claims *)

Terminal == {"Success", "Failed", "Cancelled", "TimedOut"}
NonTerminal == {"Pending", "Delayed", "InProgress"}

AllTerminal(invs) == \A i \in 1..Len(invs) : invs[i] \in Terminal

\* C1: whenever a poll has analysed the list of invocations, all_done is true
\* exactly when the list is non-empty and every status in it is one of
\* Success, Failed, Cancelled, TimedOut; a Pending, Delayed or InProgress
\* invocation makes it false, and so does the empty list.
C1_AllDoneIffTerminal ==
    (fresh /\ "completed_instances" \in DOMAIN lastPoll) =>
        /\ lastPoll.all_done <=> (Len(invocations) > 0 /\ AllTerminal(invocations))
        /\ (\E i \in 1..Len(invocations) : invocations[i] \in NonTerminal)
              => ~lastPoll.all_done
        /\ Len(invocations) = 0 => ~lastPoll.all_done

C1_Witness ==
    /\ fresh
    /\ "completed_instances" \in DOMAIN lastPoll
    /\ lastPoll.all_done
    /\ Len(invocations) >= 2
    /\ \E i \in 1..Len(invocations) : invocations[i] = "Cancelled"
    /\ \E i \in 1..Len(invocations) : invocations[i] = "Success"


\* C7: with the caller re-invoking poll until all_done or until its poll
\* budget is used up, every dispatched target eventually has exactly one
\* outcome, done (its last poll reported all_done) or timeout (the budget is
\* used up and the last poll did not report all_done), and keeps it; this
\* includes the command for which no poll finds an invocation.
C7_EveryTargetGetsOneOutcome ==
    /\ <>(targetOutcome \in {"done", "timeout"})
    /\ [][targetOutcome # "none" => targetOutcome' = targetOutcome]_vars
    /\ [](targetOutcome = "done" => lastPoll.statusCode = 200 /\ lastPoll.all_done)
    /\ [](targetOutcome = "timeout" => pollCount = PollBudget /\ ~lastPoll.all_done)

C7_Witness ==
    /\ targetOutcome = "timeout"
    /\ pollCount = PollBudget
    /\ Len(invocations) = 0
    /\ lastPoll.statusCode = 500
    /\ ~lastPoll.all_done


\* C6: for one dispatch call, whatever the retry wrapper re-attempts, at most
\* one remote command is created for the target.
C6_AtMostOneCommand == remoteCommands <= 1

StatusTags ==
    {"NO_INVOCATIONS", "IN_PROGRESS", "ALL_SUCCESS", "COMPLETED_WITH_FAILURES",
     "HIGH_FAILURE_RATE", "MAJORITY_FAILED"}

\* C14: what a poll of a list of the seven statuses returns carries a status
\* tag, one of the six; IN_PROGRESS and NO_INVOCATIONS come with all_done
\* false, the other four with all_done true.
C14_PollTagAmongSix ==
    pollCount >= 1 =>
       /\ "status" \in DOMAIN lastPoll
       /\ lastPoll.status \in StatusTags
       /\ lastPoll.status \in {"IN_PROGRESS", "NO_INVOCATIONS"} => ~lastPoll.all_done
       /\ lastPoll.status \in StatusTags \ {"IN_PROGRESS", "NO_INVOCATIONS"}
             => lastPoll.all_done

\* invocations in Failed, TimedOut or Cancelled
FailedCount(invs) ==
    Cardinality({i \in 1..Len(invs) : invs[i] \in {"Failed", "TimedOut", "Cancelled"}})

\* C15: for a list analysed or polled, not empty and all of whose invocations
\* are terminal, with failed the number of invocations in Failed, TimedOut or
\* Cancelled and total the length of the list: the tag is MAJORITY_FAILED
\* exactly when 100*failed > 50*total, HIGH_FAILURE_RATE exactly when
\* 20*total < 100*failed <= 50*total, COMPLETED_WITH_FAILURES exactly when
\* 0 < 100*failed <= 20*total, and ALL_SUCCESS exactly when failed = 0.
C15_TagThresholds ==
    ( /\ lastPoll # NoResult
      /\ Len(invocations) > 0
      /\ AllTerminal(invocations) )
    => LET failed == FailedCount(invocations)
           total == Len(invocations)
       IN  /\ lastPoll.status = "MAJORITY_FAILED" <=> 100 * failed > 50 * total
           /\ lastPoll.status = "HIGH_FAILURE_RATE"
                 <=> (20 * total < 100 * failed /\ 100 * failed <= 50 * total)
           /\ lastPoll.status = "COMPLETED_WITH_FAILURES"
                 <=> (0 < 100 * failed /\ 100 * failed <= 20 * total)
           /\ lastPoll.status = "ALL_SUCCESS" <=> failed = 0

\* one failure in five, exactly 20 percent: completed with failures
C15_Witness ==
    /\ lastPoll # NoResult
    /\ Len(invocations) = 5
    /\ AllTerminal(invocations)
    /\ FailedCount(invocations) = 1
    /\ lastPoll.status = "COMPLETED_WITH_FAILURES"

C17_ProblematicIffMissingOrFailed ==
    vAnalysis.done =>
       /\ \A i \in 1..Len(vStates) :
             LET entries == {k \in 1..Len(vAnalysis.issues_found) :
                                vAnalysis.issues_found[k].instance_id = vStates[i].InstanceId}
             IN  /\ (entries # {}) <=>
                        (vStates[i].MissingCount > 0 \/ vStates[i].FailedCount > 0)
                 /\ Cardinality(entries) <= 1
                 /\ \A k \in entries :
                       vAnalysis.issues_found[k].severity =
                          IF vStates[i].FailedCount > 0 THEN "high" ELSE "medium"
       /\ vAnalysis.problematic_instances = Len(vAnalysis.issues_found)
       /\ Len(vAnalysis.issues_found) <= Len(vStates)

\* FailedCount = 1 came out high, MissingCount = 1 with FailedCount = 0 medium,
\* and a clean instance was not listed
C17_Witness ==
    /\ vAnalysis.done
    /\ vStates = <<PatchState(1, 0, 1), PatchState(2, 1, 0), PatchState(3, 0, 0)>>
    /\ Len(vAnalysis.issues_found) = 2
    /\ vAnalysis.issues_found[1].severity = "high"
    /\ vAnalysis.issues_found[2].severity = "medium"

\* C18: analyze_patch_states on the empty list returns total 0, problematic 0
\* and success_rate 100.0 (10000 hundredths of a percent).
C18_EmptyListFullRate ==
    (vAnalysis.done /\ vStates = <<>>)
    => /\ vAnalysis.total_instances = 0
       /\ vAnalysis.problematic_instances = 0
       /\ vAnalysis.success_rate = 10000

\* the problematic instances and the instances a target's IssueReport holds:
\* a target that failed has no report
TargetProblematic(e) ==
    IF e.fault # "none" THEN 0
    ELSE Cardinality({i \in 1..Len(e.states) :
                         e.states[i].MissingCount > 0 \/ e.states[i].FailedCount > 0})

TargetTotal(e) == IF e.fault # "none" THEN 0 ELSE Len(e.states)

\* the sum over the targets S of what each contributes: its problematic
\* instances, or its instances
RECURSIVE SumOver(_, _, _)
SumOver(S, env, problematic) ==
    IF S = {} THEN 0
    ELSE LET t == CHOOSE x \in S : TRUE
         IN  (IF problematic THEN TargetProblematic(env[t]) ELSE TargetTotal(env[t]))
             + SumOver(S \ {t}, env, problematic)

\* C19: the run's aggregate problematic-instance count is the sum of the
\* problematic counts of its targets' reports, and its aggregate instance
\* count the sum of their totals, in whichever order the targets are gone
\* through.
C19_AggregateIsSum ==
    vResponse # NoVerifyResponse =>
       /\ vResponse.summary.problematic_instances =
             SumOver(DOMAIN vEnv, vEnv, TRUE)
       /\ vResponse.summary.total_instances =
             SumOver(DOMAIN vEnv, vEnv, FALSE)

\* the accounts taken in descending order: one target contributed 3
\* problematic instances, the others none, and the aggregate is 3
C19_Witness ==
    /\ vResponse # NoVerifyResponse
    /\ vAccounts[1] = NumAccounts
    /\ Cardinality({t \in DOMAIN vEnv : TargetProblematic(vEnv[t]) = 3}) = 1
    /\ \A t \in DOMAIN vEnv : vEnv[t].fault = "none"
    /\ vResponse.summary.problematic_instances = 3
    /\ vResponse.hasIssues

\* the entries of a list of records that are about pair t
EntriesOf(records, t) ==
    {i \in 1..Len(records) : records[i].account = t[1] /\ records[i].region = t[2]}

\* C20: in a run over accounts x regions every pair gets exactly one result
\* entry, a pair that failed gets an entry that says so and the others their
\* own, and the counts of succeeded and failed pairs add up to the number of
\* pairs; this for PostEC2Verify and for PreEC2Inventory, whose response
\* lists its entries under failures (success being a flag).
C20_OneResultPerPair ==
    /\ vResponse # NoVerifyResponse =>
          /\ Len(vResults) = Cardinality(DOMAIN vEnv)
          /\ \A t \in DOMAIN vEnv :
                /\ Cardinality(EntriesOf(vResults, t)) = 1
                /\ \A i \in EntriesOf(vResults, t) :
                      /\ vResults[i].success <=> vEnv[t].fault = "none"
                      /\ ~vResults[i].success => vResults[i].error_type # ""
          /\ vResponse.summary.total_processes = Cardinality(DOMAIN vEnv)
          /\ vResponse.summary.successful_processes + vResponse.summary.failed_processes
                = Cardinality(DOMAIN vEnv)
    /\ vInventory # NoVerifyResponse =>
          /\ \A t \in DOMAIN vEnv :
                Cardinality(EntriesOf(vInventory.failures, t)) = 1
          /\ vInventory.summary.processed + vInventory.summary.failed
                = Cardinality(DOMAIN vEnv)
          /\ vInventory.summary.total_combinations = Cardinality(DOMAIN vEnv)

\* The part of C20 the two handlers keep: a failed pair is recorded and the
\* loop goes on, so the counts of both responses add up to the number of
\* pairs and every failed pair has its one failure entry.
C20_FailureDoesNotStopTheOthers ==
    /\ vResponse # NoVerifyResponse =>
          /\ \A t \in DOMAIN vEnv : Cardinality(EntriesOf(vResults, t)) = 1
          /\ vResponse.summary.successful_processes + vResponse.summary.failed_processes
                = Cardinality(DOMAIN vEnv)
    /\ vInventory # NoVerifyResponse =>
          /\ \A t \in DOMAIN vEnv :
                Cardinality(EntriesOf(vInventory.failures, t))
                      = (IF vEnv[t].fault = "none" THEN 0 ELSE 1)
          /\ vInventory.summary.processed + vInventory.summary.failed
                = Cardinality(DOMAIN vEnv)

\* the pairs the inventory handler goes through on the event
InventoryPairs ==
    LET v == PreEC2Inventory_validate_input(vEvent)
    IN  {<<v.accounts[i], v.regions[j]>> : i \in 1..Len(v.accounts), j \in 1..Len(v.regions)}

\* the pairs of the run that the loop processed without a failure
ProcessedPairs == {t \in InventoryPairs : vEnv[t].fault = "none"}

\* the pairs of the run at which the loop caught a failure
FailedPairs == {t \in InventoryPairs : vEnv[t].fault # "none"}

-----------------------------------------------------------------------------
(* Claims about the validation of inventory and verify requests *)

\* the event has no accounts list or no regions list, or holds an account id
\* that is not a 12-digit numeric string, or a region of fewer than 8
\* characters
InvalidRequest ==
    \/ ~vEvent.accounts.given
    \/ ~vEvent.regions.given
    \/ \E i \in 1..Len(vEvent.accounts.list) :
          ~(vEvent.accounts.list[i].digits /\ vEvent.accounts.list[i].length = 12)
    \/ \E i \in 1..Len(vEvent.regions.list) : Len(vEvent.regions.list[i]) < 8

\* C27: an inventory or verify request that is invalid in one of these ways
\* fails validation with a structured error (500 from the inventory handler,
\* 400 from the verify handler), and the handler makes no remote call.
C27_InvalidRequestRefused ==
    InvalidRequest =>
        /\ vInventory # NoVerifyResponse =>
              (vInventory.statusCode = 500 /\ ~vInventory.success /\ vCalls.inventory = 0)
        /\ vResponse # NoVerifyResponse =>
              (vResponse.statusCode = 400 /\ vCalls.verify = 0)

\* What holds of C27: a request without accounts or with a malformed account
\* id is refused by both handlers, a short region by the inventory handler,
\* and a refused request makes no remote call.
C27_RefusedWithoutRemoteCall ==
    /\ (\/ ~vEvent.accounts.given
        \/ \E i \in 1..Len(vEvent.accounts.list) :
              ~(vEvent.accounts.list[i].digits /\ vEvent.accounts.list[i].length = 12))
          => /\ vInventory # NoVerifyResponse => vInventory.statusCode = 500
             /\ vResponse # NoVerifyResponse => vResponse.statusCode = 400
    /\ (\E i \in 1..Len(vEvent.regions.list) : Len(vEvent.regions.list[i]) < 8)
          => (vInventory # NoVerifyResponse => vInventory.statusCode = 500)
    /\ (vInventory # NoVerifyResponse /\ vInventory.failures # <<>>
           /\ vInventory.failures[1].error_type = "HandlerError")
          => vCalls.inventory = 0
    /\ (vResponse # NoVerifyResponse /\ vResponse.statusCode = 400) => vCalls.verify = 0

-----------------------------------------------------------------------------
(* Claims about the authorizer's signing secret *)

\* C30: over any sequence of invocations of one authorizer process the
\* signing secret is obtained from the store at most once; once it is cached
\* no invocation calls the store, the cached value is never replaced, and a
\* request is authorized only when it was signed with the cached value.
C30_SecretFetchedOnce ==
    /\ [](/\ secretCalls.obtained <= 1
          /\ secretCalls.obtained = 1 <=> authCache # "")
    /\ [][ authCache # ""
           => /\ authCache' = authCache
              /\ secretCalls' = secretCalls
              /\ (reqCount' # reqCount /\ lastResp'.isAuthorized)
                    => lastReq'.signedWith = authCache ]_vars

\* the first fetch failed, the second obtained k1, the store was rotated to
\* k2, and the third invocation authorized a link signed with k1 without a
\* call of the store
C30_Witness ==
    /\ reqCount = MaxInvocations
    /\ secretCalls = [calls |-> 2, obtained |-> 1]
    /\ authCache = "k1"
    /\ secretStore = "k2"
    /\ lastReq.before = "k1"
    /\ lastReq.signedWith = "k1"
    /\ lastResp.isAuthorized

-----------------------------------------------------------------------------
(* Claims about the retry wrappers *)

\* the steps' remote calls C22 names: dispatch's assume and send calls, the
\* poll step's role assumption and list-invocations calls
C22Functions ==
    {"_assume", "_send_command", "assume_cross_account_role", "get_command_invocations"}

\* C22: when a wrapped call of the dispatch step or of the poll step ends in
\* failure on a transient remote error (throttling, rate limit, internal
\* error, service unavailable, request limit exceeded), the call was attempted
\* the configured number of times before.
C22_TransientRetriedToTheLimit ==
    (/\ rFn.fn \in C22Functions
     /\ rResult.kind = "raised"
     /\ rLast.kind = "ClientError"
     /\ rLast.code \in RetryableCodes)
        => rCalls = rN

\* What holds of C22: in the dispatch step a transient error is retried up
\* to the configured attempts, and the step fails with that error after them.
C22_DispatchRetriesTransient ==
    (rFn.wrapper = "_retry" /\ rLast.kind = "ClientError" /\ rLast.code \in RetryableCodes)
        => /\ rResult.kind = "raised" <=> rCalls = rN
           /\ rResult.kind = "running" <=> rCalls < rN

\* the errors C23 calls non-retryable: access denied, resource not found,
\* invalid parameter, task already resolved or expired
NonRetryableErrors ==
    {"AccessDenied", "AccessDeniedException", "ResourceNotFound",
     "InvalidParameterValue", "ValidationException", "TaskTimedOut", "TaskDoesNotExist"}

\* C23: inside a retry wrapper a non-retryable error short-circuits: the
\* call that met it is the last one, no delay is slept after it, and the
\* wrapper raises; when it is the first call the function was invoked exactly
\* once and no delay was slept at all.
C23_NonRetryableShortCircuits ==
    (rLast.kind = "ClientError" /\ rLast.code \in NonRetryableErrors)
        => /\ rResult.kind = "raised"
           /\ Len(rSleeps) = rCalls - 1
           /\ rAttempt = 0 => (rCalls = 1 /\ rSleeps = <<>>)

\* C24: a wrapper configured with N >= 1 attempts calls the function at most
\* N times and never again after a call that succeeded; before the attempt
\* that follows failed attempt k (from 0) it has slept base_delay * 2^k; it
\* returns only the value of a call that succeeded and raises after the N-th
\* failure; and every wrapped call comes to its end.
C24_BoundedRetry ==
    /\ [](/\ rCalls <= rN
          /\ rSleeps = [k \in 1..Len(rSleeps) |-> rFn.base * (2 ^ (k - 1))]
          /\ Len(rSleeps) = (IF rResult.kind = "running" THEN rCalls ELSE rCalls - 1)
          /\ rResult.kind = "returned" => rLast.kind = "ok"
          /\ (rCalls = rN /\ rLast.kind # "ok") => rResult.kind = "raised")
    /\ [][rCalls' # rCalls => (rResult.kind = "running" /\ rLast.kind # "ok")]_vars
    /\ <>(rResult.kind \in {"returned", "raised"})

\* send_task_success with the most attempts: every one of them throttled,
\* delays of 1, 2, ... slept between them, and the error raised after the last
C24_Witness ==
    /\ rFn.fn = "send_task_success"
    /\ rN = MaxAttempts
    /\ rCalls = rN
    /\ rLast = [kind |-> "ClientError", code |-> "ThrottlingException"]
    /\ rSleeps = [k \in 1..(rN - 1) |-> 2 ^ (k - 1)]
    /\ rResult = [kind |-> "raised", error |-> "ThrottlingException"]

-----------------------------------------------------------------------------
(* Claims about the dispatch handler *)

\* C25: every step handler returns a structured result for every input and
\* every remote failure and lets no exception reach the engine; here for the
\* dispatch handler, whose run ends in a returned result and never in a
\* raised exception.
C25_NoExceptionReachesTheEngine ==
    dResult.kind # "raised"

\* the event lacks roleArn or region, or holds an empty one
LacksTarget ==
    dEvent.roleArn \in {"absent", "empty"} \/ dEvent.region \in {"absent", "empty"}

\* C26: whenever roleArn or region is missing or empty the dispatch handler
\* fails with a ValueError, and it does so before any role is assumed and
\* any command is sent.
C26_MissingTargetRaisesValueError ==
    (dPc # "start" /\ LacksTarget) =>
        /\ dResult = [kind |-> "raised", error |-> "ValueError"]
        /\ dCalls = [assume |-> 0, send |-> 0]
        /\ stsRequest = NoRequest
        /\ remoteCommands = 0

\* an event with a roleArn and an empty region was refused
C26_Witness ==
    /\ dEvent.roleArn = "given"
    /\ dEvent.region = "empty"
    /\ dPc = "raised"
    /\ dResult = [kind |-> "raised", error |-> "ValueError"]
    /\ dCalls = [assume |-> 0, send |-> 0]

-----------------------------------------------------------------------------
(* Claims about the approval gate *)

\* the expiry window of the specification, in seconds: 60 minutes
ExpiryWindow == 60 * 60

\* the query parameters of the last resolution request, as it was presented
LastQuery == Changed(GatewayQuery(link.urls[lastReq.which]), lastReq.change, lastReq.at)

\* the last request was answered with an error: not authorized, or 400 or 500
ErrorResponse == ~lastResp.isAuthorized \/ lastResp.statusCode \in {400, 500}

\* C8: a link built by create_approval_links with a signing secret and
\* presented unchanged to the authorizer, within the expiry window and under
\* the same secret, is authorized; the same request with its sig changed is
\* not authorized.
C8_SignatureRoundTrip ==
    ( /\ lastReq.via = "gateway"
      /\ link.urls[lastReq.which].signed
      /\ Abs(lastReq.at - link.urls[lastReq.which].timestamp) <= ExpiryWindow
      /\ arnSet /\ lastReq.fetchOk /\ secretStore = link.secret )
    => /\ lastReq.change = "none" => lastResp.isAuthorized
       /\ lastReq.change \in {"sig_flip", "sig_pad"} => ~lastResp.isAuthorized

\* C9: a request whose timestamp is further than the expiry window from the
\* time it is made at, in the past or in the future, is rejected by the
\* authorizer and by the callback: not authorized at the gateway, answered
\* 400 by the callback, and the continuation is left as it was.
C9_ExpiredRejectedBothWays ==
    ( /\ lastReq.via # "none"
      /\ LastQuery.timestamp.kind = "int"
      /\ Abs(lastReq.at - LastQuery.timestamp.n) > ExpiryWindow )
    => /\ cont = lastReq.before
       /\ lastReq.via = "gateway" => ~lastResp.isAuthorized
       /\ lastReq.via = "direct" => lastResp.statusCode = 400

\* The request is older than the expiry window.
Expired == 
    /\ LastQuery.timestamp.kind = "int"
    /\ lastReq.at - LastQuery.timestamp.n > ExpiryWindow

\* The request came through the gateway with a sig that, white space aside, is
\* not the HMAC of the parameters it presents under the stored secret.
BadSignature ==
    /\ lastReq.via = "gateway"
    /\ LET q == LastQuery
       IN  strip(q.sig) # <<"hmac", secretStore>> \o strip(q.token)
                              \o <<":", TimestampText(q.timestamp), ":", q.action, ":">>
                              \o strip(q.executionId)

\* The request names a token the engine never issued.
TokenUnknown == LastQuery.token # IssuedToken

\* C10: a resolution request that is expired, badly signed or names an unknown
\* token gets an error response, and the continuation is left as it was: an
\* execution suspended at the gate stays suspended.
C10_FailedResolutionLeavesSuspended ==
    (lastReq.via # "none" /\ (Expired \/ BadSignature \/ TokenUnknown))
    => /\ ErrorResponse
       /\ cont = lastReq.before

\* an unknown token reaches the engine, the requester gets 500 and the
\* execution is still suspended
C10_Witness ==
    /\ lastReq.via = "direct"
    /\ lastReq.change = "token"
    /\ lastResp.statusCode = 500
    /\ cont.status = "pending"
    /\ [action |-> "approve", execution_id |-> <<"exec-1">>, token |-> UnknownToken] \in audit

Accepted ==
    /\ lastReq.via # "none"
    /\ lastResp.isAuthorized
    /\ ~validate_request(LastQuery, lastReq.at).raised

\* C11: an accepted request whose action is 'approve' sends only the success
\* outcome to the continuation, never the failure outcome; one whose action is
\* 'reject' sends only the failure outcome with error 'ManualRejection', never
\* the success outcome; the continuation is afterwards either as it was or
\* resolved with the outcome of the request's action.
C11_ApproveSendsSuccessRejectSendsFailure ==
    Accepted =>
       /\ LastQuery.action = "approve" =>
             /\ lastResp.signal = [outcome |-> "succeeded", error |-> ""]
             /\ cont \in {lastReq.before,
                          [status |-> "succeeded", token |-> lastReq.before.token,
                           error |-> ""]}
       /\ LastQuery.action = "reject" =>
             /\ lastResp.signal = [outcome |-> "failed", error |-> "ManualRejection"]
             /\ cont \in {lastReq.before,
                          [status |-> "failed", token |-> lastReq.before.token,
                           error |-> "ManualRejection"]}

\* an accepted reject request resolved the suspended continuation as failed
C11_Witness ==
    /\ Accepted
    /\ lastReq.via = "gateway"
    /\ LastQuery.action = "reject"
    /\ lastReq.before.status = "pending"
    /\ lastResp.statusCode = 200
    /\ lastResp.signal.outcome = "failed"
    /\ cont.status = "failed"
    /\ cont.error = "ManualRejection"

\* the last request was refused: not authorized at the gateway, or answered
\* 400 by the callback
Refused == ~lastResp.isAuthorized \/ lastResp.statusCode = 400

MissingField(query) ==
    \/ query.action = ""
    \/ query.token = <<>>
    \/ query.timestamp.kind = "absent"
    \/ query.sig = <<>>

C13_UnknownActionRejected ==
    (lastReq.via # "none" /\ lastReq.query.action \notin {"approve", "reject"})
    => /\ Refused
       /\ lastResp.signal = NoSignal
       /\ cont = lastReq.before

\* a request for another action, correctly signed, passed the authorizer and
\* was answered 400 by the callback
C13_Witness ==
    /\ lastReq.via = "gateway"
    /\ lastReq.query.action = "delete"
    /\ lastResp.isAuthorized
    /\ lastResp.statusCode = 400
    /\ lastResp.signal = NoSignal
    /\ cont = Suspended(IssuedToken)

-----------------------------------------------------------------------------
(* Claims about the wave scheduler *)

\* the wave's aggregate problematic-instance count: the sum over the reports
\* of its targets, a target that failed having none
RECURSIVE AggregateProblematic(_)
AggregateProblematic(reports) ==
    IF reports = <<>> THEN 0
    ELSE (IF Head(reports).success THEN Head(reports).problematic_instances ELSE 0)
         + AggregateProblematic(Tail(reports))

C3_WavesStrictlySequential ==
    \A t \in Targets :
        (xTargets[t] # "waiting" /\ t[1] > 1)
        => /\ \A u \in WaveTargets(t[1] - 1) : xTargets[u] = "finished"
           /\ xDecided[t[1] - 1] \in {"proceed", "approved"}

\* two targets of the second wave run in parallel after the first wave was
\* approved at the gate
C3_Witness ==
    /\ xDecided[1] = "approved"
    /\ xWave = 2
    /\ xTargets[<<2, 1>>] = "running"
    /\ xTargets[<<2, 2>>] = "running"

\* C4: when a decision resolves the gate, approve resumes the execution on
\* the next wave (Completed after the last) and reject ends it Aborted; an
\* Aborted execution stays Aborted and starts no further target.
C4_ApproveResumesRejectAborts ==
    /\ [][ (xStatus = "AwaitingApproval" /\ cont'.status # cont.status)
           => /\ lastReq'.which = "approve_url"
                    => /\ cont'.status = "succeeded"
                       /\ IF xWave = NumWaves THEN xStatus' = "Completed"
                          ELSE xStatus' = "Running" /\ xWave' = xWave + 1
              /\ lastReq'.which = "reject_url"
                    => cont'.status = "failed" /\ xStatus' = "Aborted" ]_vars
    /\ [][ xStatus = "Aborted"
           => /\ xStatus' = "Aborted"
              /\ \A t \in Targets : xTargets[t] = "waiting" => xTargets'[t] = "waiting" ]_vars
    /\ [](xDecided[xWave] = "rejected"
           => /\ xStatus = "Aborted"
              /\ \A t \in Targets : t[1] > xWave => xTargets[t] = "waiting")

\* 2 problematic instances of 5, abortOnIssues, the reject link followed: the
\* execution is Aborted and the second wave never started
C4_Witness ==
    /\ abortOnIssues
    /\ xReports[1] = Analysed(5, 2)
    /\ xReports[2] = Analysed(5, 0)
    /\ xDecided[1] = "rejected"
    /\ lastReq.which = "reject_url"
    /\ cont.status = "failed" /\ cont.error = "ManualRejection"
    /\ xStatus = "Aborted"
    /\ \A t \in WaveTargets(2) : xTargets[t] = "waiting"

TerminalStatuses == {"Completed", "Aborted", "Failed"}

\* C28: Completed, Aborted and Failed are terminal: once the execution is in
\* one of them, no later event (the end of a target's polling, an approval
\* callback, a resume) changes its status or its wave or starts a target.
C28_TerminalStatusesStay ==
    [][ (xStatus \in TerminalStatuses)
        => /\ xStatus' = xStatus
           /\ xWave' = xWave
           /\ \A t \in Targets : xTargets[t] = "waiting" => xTargets'[t] = "waiting" ]_vars

\* the approve link was followed after the rejection had ended the execution
\* Aborted: the callback was answered, the execution is still Aborted and
\* the second wave not started
C28_Witness ==
    /\ xStatus = "Aborted"
    /\ xDecided[1] = "rejected"
    /\ cont.status = "failed"
    /\ lastReq.which = "approve_url"
    /\ lastResp.statusCode # 200
    /\ \A t \in WaveTargets(2) : xTargets[t] = "waiting"

\* C29: when the execution is aborted while a wave is running, no target
\* that was not started is started afterwards, and every target that was
\* started runs on to the end of its own polling.
C29_AbortedMidWave ==
    /\ [][ xDecided[xWave] = "aborted"
           => \A t \in Targets : xTargets[t] = "waiting" => xTargets'[t] = "waiting" ]_vars
    /\ \A t \in Targets :
          (xDecided[xWave] = "aborted" /\ xTargets[t] = "running")
              ~> (xDecided[xWave] = "aborted" /\ xTargets[t] = "finished")

\* aborted in the first wave with one target started: that target has
\* finished and left its result, the other was never started
C29_Witness ==
    /\ xStatus = "Aborted"
    /\ xDecided[1] = "aborted"
    /\ xTargets[<<1, 1>>] = "finished"
    /\ xReports[1] # NoReport
    /\ xTargets[<<1, 2>>] = "waiting"
    /\ \A t \in WaveTargets(2) : xTargets[t] = "waiting"


-----------------------------------------------------------------------------
(* The poll result as the caller's loop reads it *)

\* C33: every successful poll result (statusCode 200) has
\* should_continue_polling equal to the negation of all_done, and every error
\* result of the poll handler (statusCode 400 or 500) has all_done false and
\* should_continue_polling false.
C33_ContinueIsNotAllDone ==
    pollCount >= 1 =>
       /\ lastPoll.statusCode \in {200, 400, 500}
       /\ lastPoll.statusCode = 200
             => lastPoll.should_continue_polling = ~lastPoll.all_done
       /\ lastPoll.statusCode \in {400, 500}
             => ~lastPoll.all_done /\ ~lastPoll.should_continue_polling

\* a successful poll of a finished command after an error result
C33_Witness ==
    /\ pollCount = 2
    /\ targetOutcome = "done"
    /\ lastPoll.statusCode = 200
    /\ lastPoll.all_done
    /\ ~lastPoll.should_continue_polling

\* an invocation whose status is none of the seven
HasUnknownStatus(invs) == \E i \in 1..Len(invs) : invs[i] \notin InvocationStatuses

\* C35: while some invocation has a status outside the seven (the transient
\* Cancelling), a poll that analyses the list counts that invocation neither
\* as completed nor as in progress, returns all_done false and
\* should_continue_polling true, and tags the result UNKNOWN when no
\* invocation is Pending, Delayed or InProgress.
C35_UnknownStatusKeepsPolling ==
    (fresh /\ lastPoll.statusCode = 200 /\ HasUnknownStatus(invocations)) =>
       /\ lastPoll.completed_instances + lastPoll.in_progress_instances
             < lastPoll.total_instances
       /\ ~lastPoll.all_done
       /\ lastPoll.should_continue_polling
       /\ CountIn(invocations, running_statuses) = 0 => lastPoll.status = "UNKNOWN"
       /\ CountIn(invocations, running_statuses) > 0 => lastPoll.status = "IN_PROGRESS"

\* the second poll of a command with one invocation cancelling and the other
\* finished: still not done, tagged UNKNOWN, and the budget is used up
C35_Witness ==
    /\ fresh
    /\ pollCount = PollBudget
    /\ lastPoll.statusCode = 200
    /\ Len(invocations) = 2
    /\ invocations[1] = "Cancelling"
    /\ invocations[2] = "Success"
    /\ lastPoll.status = "UNKNOWN"
    /\ lastPoll.should_continue_polling
    /\ targetOutcome = "timeout"


-----------------------------------------------------------------------------
(* The verify handler's aggregate and the targets that failed *)

\* the targets of the run whose verification went through
VerifiedTargets == {p \in (1..NumAccounts) \X RegionSet : vEnv[p].fault = "none"}

\* instances of a target with missing or failed patches
ProblematicInstances(p) ==
    Cardinality({i \in 1..Len(vEnv[p].states) :
                    \/ vEnv[p].states[i].MissingCount > 0
                    \/ vEnv[p].states[i].FailedCount > 0})

\* the sum over a set of targets of their instances, all or problematic
RECURSIVE TargetSum(_, _)
TargetSum(S, problematic) ==
    IF S = {} THEN 0
    ELSE LET p == CHOOSE q \in S : TRUE
         IN  (IF problematic THEN ProblematicInstances(p) ELSE Len(vEnv[p].states))
             + TargetSum(S \ {p}, problematic)

\* C34: the verify handler returns hasIssues true exactly when at least one
\* target whose verification succeeded has problematic instances; a target
\* that failed adds nothing to hasIssues, to total_instances or to
\* problematic_instances, so a run in which every target failed returns
\* statusCode 200 with hasIssues false.
C34_FailedTargetsAddNothing ==
    vResponse # NoVerifyResponse =>
       /\ vResponse.statusCode = 200
       /\ vResponse.hasIssues
             <=> (\E p \in VerifiedTargets : ProblematicInstances(p) > 0)
       /\ vResponse.summary.total_instances = TargetSum(VerifiedTargets, FALSE)
       /\ vResponse.summary.problematic_instances = TargetSum(VerifiedTargets, TRUE)
       /\ VerifiedTargets = {}
             => /\ ~vResponse.hasIssues
                /\ vResponse.summary.total_instances = 0
                /\ vResponse.summary.failed_processes = Len(vResults)

\* every target failed, one of them after its analysis had found problematic
\* instances: 200 with hasIssues false
C34_Witness ==
    /\ vResponse # NoVerifyResponse
    /\ VerifiedTargets = {}
    /\ \E p \in (1..NumAccounts) \X RegionSet :
          vEnv[p].fault = "store" /\ ProblematicInstances(p) > 0
    /\ vResponse.statusCode = 200
    /\ ~vResponse.hasIssues
    /\ vResponse.summary.failed_processes = NumAccounts * Len(Regions)


-----------------------------------------------------------------------------
(* The audit record of a decision and the signal to the continuation *)

\* the audit record of the request that has just reached the callback
DecisionRecord(request, now) ==
    LET request_data == validate_request(request, now)
    IN  [action |-> request_data.action,
         execution_id |-> request_data.execution_id,
         token |-> request_data.task_token]

-----------------------------------------------------------------------------
(* Links sent without a signature *)

LinkNames == {"approve_url", "reject_url"}

\* C37: the two links of an approval request carry a sig exactly when
\* SendApprovalRequest retrieved a signing secret; with the secret's ARN unset
\* or the fetch failing the request still goes out, with links that carry no
\* sig, and no request made from such a link is authorized by the authorizer.
C37_SigIffSecretRetrieved ==
    link.issued =>
       /\ \A which \in LinkNames :
             /\ link.urls[which].signed <=> link.secret # ""
             /\ ~link.urls[which].signed => link.urls[which].sig = <<>>
             /\ link.urls[which].signed =>
                   link.urls[which].sig
                      = sign(build_canonical_string(IssuedToken,
                                 ToString(link.urls[which].timestamp),
                                 link.urls[which].action,
                                 link.urls[which].executionId), link.secret)
       /\ ~arnSet => link.secret = ""
       /\ cont # NoContinuation
       /\ (link.secret = "" /\ lastReq.via = "gateway")
             => ~lastResp.isAuthorized /\ lastResp.signal = NoSignal

\* the fetch of the secret failed when the links were made; the approve link
\* is followed as it was sent and the authorizer refuses it
C37_Witness ==
    /\ link.issued
    /\ arnSet
    /\ link.secret = ""
    /\ ~link.urls["approve_url"].signed
    /\ lastReq.via = "gateway"
    /\ lastReq.which = "approve_url"
    /\ lastReq.change = "none"
    /\ ~lastResp.isAuthorized
    /\ cont = Suspended(IssuedToken)


-----------------------------------------------------------------------------
(* The signature and the tuple it was made for *)

\* the tuple of a request or of a link as the gateway delivers it
SignedTuple(query) == <<query.token, query.timestamp, query.action, query.executionId>>

\* C38: a sig is bound to its whole tuple (token, timestamp, action,
\* executionId): the authorizer accepts a request that carries the sig of a
\* link only when the request's tuple is the tuple of that link.
C38_SigBoundToItsTuple ==
    (lastReq.via = "gateway" /\ lastResp.isAuthorized) =>
        SignedTuple(lastReq.query) = SignedTuple(GatewayQuery(link.urls[lastReq.which]))

\* The part of C38 that holds: the sig of the approve link authorizes no
\* reject request, and the sig of the reject link no approve request.
C38_ApproveSigNotForReject ==
    (lastReq.via = "gateway" /\ lastResp.isAuthorized) =>
        /\ lastReq.which = "approve_url" => lastReq.query.action # "reject"
        /\ lastReq.which = "reject_url" => lastReq.query.action # "approve"
        /\ lastReq.query.token = IssuedToken


-----------------------------------------------------------------------------
(* Credentials and the target they were obtained for *)

\* the steps of the run that used credentials
CredentialUses == {i \in DOMAIN vCalls.trace : vCalls.trace[i].used}

\* C31: credentials obtained for one (account, region) target are used only
\* in that target's pipeline: no credentials are used for two different
\* targets, none are requested for more than one hour, and none are kept when
\* the target's processing ends.
C31_CredentialsStayInTheirTarget ==
    vCalls # NoCalls =>
       /\ \A i, j \in CredentialUses :
             vCalls.trace[i].credentials = vCalls.trace[j].credentials
                => vCalls.trace[i].target = vCalls.trace[j].target
       /\ \A i \in DOMAIN vCalls.trace : vCalls.trace[i].DurationSeconds <= 60 * 60
       /\ \A i \in DOMAIN vCalls.trace : ~vCalls.trace[i].kept

\* The part of C31 that holds: no handler requests credentials for more than
\* one hour, and process_account_region of src/lambda requests its own for
\* each target, uses no others and keeps none.
C31_OwnCredentialsPerTarget ==
    vCalls # NoCalls =>
       /\ \A i \in DOMAIN vCalls.trace : vCalls.trace[i].DurationSeconds <= 60 * 60
       /\ vCalls.handler = "lambda" =>
             /\ \A i \in DOMAIN vCalls.trace :
                   /\ vCalls.trace[i].requested
                   /\ ~vCalls.trace[i].kept
             /\ \A i, j \in CredentialUses :
                   vCalls.trace[i].credentials = vCalls.trace[j].credentials => i = j


-----------------------------------------------------------------------------
(* Records once written *)

AllRecords(t) == t.state \cup t.audit

\* C32: an audit or state record is never changed after it was written: no
\* write of a per-target completion record or of an approval-decision record
\* removes or replaces a record written earlier, also when the same account
\* and region are verified twice on one day.
C32_RecordsNeverOverwritten ==
    [][ \A r \in AllRecords(tables) : r \in AllRecords(tables') ]_vars

\* The part of C32 that holds: the approval-decision records stay, and a
\* completion record is replaced only by the record of the same account,
\* region and day.
C32_DecisionRecordsKept ==
    [][ /\ tables.audit \subseteq tables'.audit
        /\ \A r \in tables.state :
              \/ r \in tables'.state
              \/ \E n \in tables'.state : n.id = r.id /\ n.execution_id # r.execution_id ]_vars


-----------------------------------------------------------------------------
(* The authorizer's answer when something is missing or goes wrong *)

\* C39: the authorizer answers isAuthorized true only when sig, token,
\* timestamp and action are all there, the timestamp is within the window
\* and the sig is the signature of the request's canonical string under the
\* secret; when the secret's ARN is unset or its fetch fails the answer is
\* isAuthorized false.
C39_AuthorizerFailsClosed ==
    lastReq.via = "gateway" =>
       /\ lastResp.isAuthorized =>
             /\ strip(LastQuery.sig) # <<>>
             /\ strip(LastQuery.token) # <<>>
             /\ strip_text(LastQuery.action) # ""
             /\ LastQuery.timestamp.kind = "int"
             /\ Abs(lastReq.at - LastQuery.timestamp.n) <= 60 * 60
             /\ authCache # ""
             /\ strip(LastQuery.sig)
                   = sign(build_canonical_string(strip(LastQuery.token),
                              TimestampText(LastQuery.timestamp),
                              strip_text(LastQuery.action),
                              strip(LastQuery.executionId)), authCache)
       /\ ~arnSet => ~lastResp.isAuthorized
       /\ ~lastReq.fetchOk => ~lastResp.isAuthorized
       /\ ~lastResp.isAuthorized => lastResp.signal = NoSignal /\ cont = lastReq.before

\* a link signed and followed within the window, every parameter there, and
\* the fetch of the secret fails: refused, the continuation left suspended
C39_Witness ==
    /\ lastReq.via = "gateway"
    /\ lastReq.change = "none"
    /\ link.secret # ""
    /\ strip(LastQuery.sig) # <<>>
    /\ lastReq.at = 0
    /\ arnSet
    /\ ~lastReq.fetchOk
    /\ ~lastResp.isAuthorized
    /\ cont = Suspended(IssuedToken)

=============================================================================
